---- MODULE Spec2Model ----
(***************************************************************************)
(* Model of the Hybrid Neuro-Symbolic Contradiction Engine:                *)
(*   - StreamingReader (contradiction_engine/streaming.py)                 *)
(*   - SimplifiedClaimExtractor / ClaimExtractor (claims_simple.py,        *)
(*     claims.py)                                                          *)
(*   - SimplifiedContradictionDetector (reasoning.py)                      *)
(* Text is a sequence of one-character strings.  A file is a sequence of   *)
(* bytes: an ASCII byte is written as its character, and the two bytes of  *)
(* the UTF-8 encoding of U+00E9 are written "C3" and "A9"; the decoded     *)
(* character is written "E9".                                              *)
(***************************************************************************)
EXTENDS Integers, Sequences, FiniteSets, TLC

VARIABLES
    \* ---- StreamingReader.stream_chunks ----
    file,                 \* the bytes of the file at self.filepath
    chunk_size,           \* self.chunk_size
    pos,                  \* read position of f
    sentence_buffer,      \* local sentence_buffer
    incomplete_sentence,  \* local incomplete_sentence
    chunk_id,             \* local chunk_id
    yielded,              \* the chunks yielded so far, in order
    st,                   \* "open" (in the read loop), "done", "raised"
    committed,            \* history: every sentence passed to sentence_buffer.extend
    decoded,              \* history: the decoded text of the blocks read so far
    decode_warnings,      \* number of logger.warning diagnostics emitted
    \* ---- SimplifiedClaimExtractor / ClaimExtractor ----
    ex_kind,              \* the extractor constructed: "simple", "nlp" or "none"
    current_time_context, \* self.current_time_context
    ex_calls,             \* number of extract_from_chunk calls made so far
    returned,             \* the list of claims returned by the last call
    candidates,           \* history: the confidence computed for each candidate
                          \* of the last call, with whether a Claim was built
    call_log,             \* history: per call, the time_context argument and
                          \* the marker detected in the chunk
    \* ---- SimplifiedContradictionDetector / ContradictionDetector ----
    det_kind,             \* the detector constructed: "rule", "nli" or "none"
    det_claims,           \* the claims list that detect is called with
    det_st,               \* "new" (nothing constructed), "init_raised", "ready",
                          \* "encoding", "scoring" (inside detect, at a provider
                          \* call), "done", "raised", or "none"
    contradictions,       \* the list that the last completed detect returned
    det_calls,            \* number of detect calls begun
    det_returns,          \* history: the list returned by each completed call
    \* ---- ContradictionDetector: locals of detect and the providers ----
    all_contradictions,   \* local all_contradictions of detect
    nd_group,             \* index of the entity group being processed
    nd_pairs,             \* candidate pairs of the group still to be scored
    nd_found,             \* local contradictions of _logic_juror
    load_log,             \* history: the models loaded by _init_models
    encode_log,           \* history: per call of semantic_model.encode, the
                          \* detect call, the claims encoded and the vectors
    score_log,            \* history: per call of nli_model.predict, the detect
                          \* call, the pair scored and the scores
    embed_memo,           \* the vector the embedding provider gives each text
    score_memo,           \* the scores the NLI provider gives each text pair
    \* ---- calls of functions that keep no state ----
    fn_in,                \* the arguments the function is applied to
    fn_out,               \* the results of the calls made so far, by argument
    \* ---- ClaimStore ----
    store_files,          \* the .jsonl files of the store: name -> content
    store_saved,          \* history: document path -> the list last saved
    store_loaded,         \* history: the load_claims calls and their results
    \* ---- the document pipeline of cli.py and app.py ----
    pipe_kind,            \* "cli" (cli.main), "app" (the handler of app.py)
                          \* or "none"
    reuse_claims,         \* the option --reuse-claims of cli.main
    pipe_st,              \* position in the pipeline: "start", "extracting"
                          \* (in the loop over the chunks), "claims_ready"
                          \* (before "if not claims"), "detected", "exit",
                          \* or "none"
    all_claims,           \* local all_claims of extract_claims
    loop_chunk_id,        \* local chunk_id of extract_claims
    main_claims,          \* local claims of main
    handed                \* history: the text and the chunk_id handed to
                          \* extract_from_chunk, per call

stream_vars == <<file, chunk_size, pos, sentence_buffer, incomplete_sentence,
                 chunk_id, yielded, st, committed, decoded, decode_warnings>>

extract_vars == <<ex_kind, current_time_context, ex_calls, returned, candidates,
                  call_log>>

detect_vars == <<det_kind, det_claims, det_st, contradictions, det_calls,
                 det_returns>>

nli_vars == <<all_contradictions, nd_group, nd_pairs, nd_found, load_log,
              encode_log, score_log, embed_memo, score_memo>>

fn_vars == <<fn_in, fn_out>>

store_vars == <<store_files, store_saved, store_loaded>>

pipe_vars == <<pipe_kind, reuse_claims, pipe_st, all_claims, loop_chunk_id,
               main_claims, handed>>

\* what the actions of one component leave alone
\* (the pipeline appends to all_claims in the step that calls the extractor)
outside_stream == <<extract_vars, detect_vars, nli_vars, fn_vars, store_vars,
                    pipe_vars>>
outside_extract == <<stream_vars, detect_vars, nli_vars, fn_vars, store_vars>>
outside_detect == <<stream_vars, extract_vars, fn_vars, store_vars, pipe_vars>>
outside_fn == <<stream_vars, extract_vars, detect_vars, nli_vars, store_vars,
                pipe_vars>>
outside_store == <<stream_vars, extract_vars, detect_vars, nli_vars, fn_vars,
                   pipe_vars>>

vars == <<stream_vars, extract_vars, detect_vars, nli_vars, fn_vars, store_vars,
          pipe_vars>>

(***************************************************************************)
(* Bounds of the model                                                     *)
(***************************************************************************)
MaxTokens == 6
MaxBytes == 3
MaxChunk == 2
MaxCalls == 3
MaxHedges == 3
MaxClaims == 3
MaxValueLen == 2
MaxDetectCalls == 2
MaxFieldLen == 2
MaxStored == 2

(***************************************************************************)
(* Program constants                                                       *)
(***************************************************************************)
CHUNK_SIZE == 4096
MAX_SENTENCE_BUFFER == 5
\* Confidences are counted in tenths: 7 stands for 0.7, 10 for 1.0.  The float
\* results of claims.py that reach the threshold (1.0 and 1.0 - 0.3) equal the
\* literals 1.0 and 0.7, so the comparison with the threshold is exact.
MIN_CLAIM_CONFIDENCE == 7
SIMPLE_CONFIDENCE == 8
MIN_SENTENCE_LENGTH == 10
MAX_NAME_LENGTH == 50
UNCERTAINTY_PENALTY == 3
METAPHOR_PENALTY == 4
QUESTION_PENALTY == 5
\* delta=1.0 of a rule-based verdict, in tenths
RULE_DELTA == 10
\* thresholds of the detectors, in tenths
SEMANTIC_SIMILARITY_THRESHOLD == 6
CONTRADICTION_DELTA_THRESHOLD == 5

(***************************************************************************)
(* String helpers (Python str methods)                                     *)
(***************************************************************************)
Whitespace == {" ", "\n", "\t"}

IsBlank(s) == \A i \in 1..Len(s) : s[i] \in Whitespace

\* str.rstrip()
RECURSIVE RStrip(_)
RStrip(s) ==
    IF s = <<>> \/ s[Len(s)] \notin Whitespace THEN s
    ELSE RStrip(SubSeq(s, 1, Len(s) - 1))

\* str.lstrip()
RECURSIVE LStrip(_)
LStrip(s) ==
    IF s = <<>> \/ s[1] \notin Whitespace THEN s
    ELSE LStrip(Tail(s))

\* str.strip()
Strip(s) == LStrip(RStrip(s))

\* str.endswith(suffix)
EndsWith(s, suffix) ==
    /\ Len(suffix) <= Len(s)
    /\ SubSeq(s, Len(s) - Len(suffix) + 1, Len(s)) = suffix

\* ' '.join(parts)
RECURSIVE JoinSp(_)
JoinSp(parts) ==
    IF parts = <<>> THEN <<>>
    ELSE IF Len(parts) = 1 THEN parts[1]
    ELSE parts[1] \o <<" ">> \o JoinSp(Tail(parts))

\* concatenation of a sequence of sequences
RECURSIVE Concat(_)
Concat(parts) ==
    IF parts = <<>> THEN <<>> ELSE parts[1] \o Concat(Tail(parts))

\* the characters of s that are not whitespace, in order
NonWs(s) == SelectSeq(s, LAMBDA c : c \notin Whitespace)

IsPrefix(p, s) == Len(p) <= Len(s) /\ SubSeq(s, 1, Len(p)) = p

(***************************************************************************)
(* bytes.decode('utf-8') and bytes.decode('utf-8', errors='ignore')        *)
(***************************************************************************)
\* A byte sequence is valid UTF-8 iff every lead byte C3 is followed by the
\* continuation byte A9 and every A9 follows a C3.
ValidUtf8(b) ==
    /\ \A i \in 1..Len(b) : b[i] = "C3" => (i < Len(b) /\ b[i+1] = "A9")
    /\ \A i \in 1..Len(b) : b[i] = "A9" => (i > 1 /\ b[i-1] = "C3")

\* errors='ignore': well-formed sequences are decoded, malformed bytes dropped
RECURSIVE DecodeIgnore(_)
DecodeIgnore(b) ==
    IF b = <<>> THEN <<>>
    ELSE IF b[1] = "C3" /\ Len(b) >= 2 /\ b[2] = "A9"
         THEN <<"E9">> \o DecodeIgnore(SubSeq(b, 3, Len(b)))
    ELSE IF b[1] \in {"C3", "A9"}
         THEN DecodeIgnore(Tail(b))
    ELSE <<b[1]>> \o DecodeIgnore(Tail(b))

\* Mutant of DecodeBlock: the UnicodeDecodeError is not caught.
DecodeBlockUncaught(binary_chunk) ==
    [text   |-> DecodeIgnore(binary_chunk),
     failed |-> ~ValidUtf8(binary_chunk),
     raised |-> ~ValidUtf8(binary_chunk)]

\* The try/except of stream_chunks: strict decode, and on UnicodeDecodeError
\* the lenient decode plus a warning.  `failed` says the strict decode raised
\* and was caught; `raised` says an exception leaves the try block (the
\* lenient decode never raises).
DecodeBlock(binary_chunk) ==
    [text   |-> DecodeIgnore(binary_chunk),
     failed |-> ~ValidUtf8(binary_chunk),
     raised |-> FALSE]

(***************************************************************************)
(* StreamingReader._is_abbreviation / _split_sentences                     *)
(***************************************************************************)
common_abbrev ==
    { <<"M","r",".">>, <<"M","r","s",".">>, <<"D","r",".">>, <<"M","s",".">>,
      <<"P","r","o","f",".">>, <<"S","r",".">>, <<"J","r",".">>,
      <<"v","s",".">>, <<"e","t","c",".">>, <<"i",".","e",".">>,
      <<"e",".","g",".">>, <<"I","n","c",".">>, <<"L","t","d",".">> }

_is_abbreviation(text) ==
    LET stripped == RStrip(text) IN
    \E abbrev \in common_abbrev : EndsWith(stripped, abbrev)

\* The for-loop of _split_sentences from character i on, with the loop's
\* locals `sentences` and `current`, followed by the "remaining text" step.
RECURSIVE SplitLoop(_, _, _, _)
SplitLoop(text, i, sentences, current) ==
    IF i > Len(text)
    THEN IF Strip(current) # <<>> THEN Append(sentences, Strip(current))
                                  ELSE sentences
    ELSE LET cur == Append(current, text[i]) IN
         IF text[i] \in {".", "!", "?"} /\ Len(cur) > 1 /\ ~_is_abbreviation(cur)
         THEN SplitLoop(text, i + 1, Append(sentences, Strip(cur)), <<>>)
         ELSE SplitLoop(text, i + 1, sentences, cur)

_split_sentences(text) == SplitLoop(text, 1, <<>>, <<>>)

\* text_chunk.rstrip().endswith(('.', '!', '?', '"', "'"))
EndsComplete(text_chunk) ==
    LET r == RStrip(text_chunk) IN
    r # <<>> /\ r[Len(r)] \in {".", "!", "?", "\"", "'"}

\* "sub in s" of two strings
IsSubstring(sub, s) ==
    \E i \in 0..(Len(s) - Len(sub)) : SubSeq(s, i + 1, i + Len(sub)) = sub

Terminal == {".", "!", "?"}

(***************************************************************************)
(* Components that take no part in a specification stay as constructed     *)
(***************************************************************************)
NoneVal == <<"None">>          \* Python's None where a str is optional

ExtractorIdle ==
    /\ ex_kind = "none"
    /\ current_time_context = <<>>
    /\ ex_calls = 0
    /\ returned = <<>>
    /\ candidates = <<>>
    /\ call_log = <<>>

\* no provider has been asked anything and detect has no locals
NliIdle ==
    /\ all_contradictions = <<>>
    /\ nd_group = 0
    /\ nd_pairs = <<>>
    /\ nd_found = <<>>
    /\ load_log = <<>>
    /\ encode_log = <<>>
    /\ score_log = <<>>
    /\ embed_memo = <<>>
    /\ score_memo = <<>>

DetectorIdle ==
    /\ det_kind = "none"
    /\ det_claims = <<>>
    /\ det_st = "none"
    /\ contradictions = <<>>
    /\ det_calls = 0
    /\ det_returns = <<>>
    /\ NliIdle

ReaderIdle ==
    /\ file = <<>>
    /\ chunk_size = CHUNK_SIZE
    /\ pos = 0
    /\ sentence_buffer = <<>>
    /\ incomplete_sentence = <<>>
    /\ chunk_id = 0
    /\ yielded = <<>>
    /\ st = "idle"
    /\ committed = <<>>
    /\ decoded = <<>>
    /\ decode_warnings = 0

FnIdle ==
    /\ fn_in = <<>>
    /\ fn_out = <<>>

\* no file in the store, nothing saved or loaded
StoreIdle ==
    /\ store_files = <<>>
    /\ store_saved = <<>>
    /\ store_loaded = <<>>

PipeIdle ==
    /\ pipe_kind = "none"
    /\ reuse_claims = FALSE
    /\ pipe_st = "none"
    /\ all_claims = <<>>
    /\ loop_chunk_id = 0
    /\ main_claims = <<>>
    /\ handed = <<>>

\* the components outside the one a specification is about
OutsideStreamIdle == ExtractorIdle /\ DetectorIdle /\ FnIdle /\ StoreIdle /\ PipeIdle
OutsideExtractIdle == ReaderIdle /\ DetectorIdle /\ FnIdle /\ StoreIdle /\ PipeIdle
OutsideDetectIdle == ReaderIdle /\ ExtractorIdle /\ FnIdle /\ StoreIdle /\ PipeIdle
OutsideFnIdle == ReaderIdle /\ ExtractorIdle /\ DetectorIdle /\ StoreIdle /\ PipeIdle
OutsideStoreIdle == ReaderIdle /\ ExtractorIdle /\ DetectorIdle /\ PipeIdle

(***************************************************************************)
(* The input files of the model                                            *)
(***************************************************************************)
SentenceTokens == { <<"a", ".">>, <<"D", "r", ".">>, <<" ">>, <<"b">> }
ByteAlphabet == {"a", " ", ".", "?", "\"", "C3", "A9"}

TokenFiles ==
    { Concat(ts) : ts \in UNION { [1..n -> SentenceTokens] : n \in 0..MaxTokens } }
ByteFiles == UNION { [1..n -> ByteAlphabet] : n \in 0..MaxBytes }
Files == TokenFiles \cup ByteFiles

\* small block sizes, and the default of config.py (the whole file in one read)
ChunkSizes == (1..MaxChunk) \cup {CHUNK_SIZE}

(***************************************************************************)
(* StreamingReader.stream_chunks                                           *)
(***************************************************************************)
InitStream ==
    /\ file \in Files
    /\ chunk_size \in ChunkSizes
    /\ pos = 0
    /\ sentence_buffer = <<>>
    /\ incomplete_sentence = <<>>
    /\ chunk_id = 0
    /\ yielded = <<>>
    /\ st = "open"
    /\ committed = <<>>
    /\ decoded = <<>>
    /\ decode_warnings = 0
    /\ OutsideStreamIdle

\* f.read(self.chunk_size) at position pos
NextBlock == SubSeq(file, pos + 1, IF pos + chunk_size <= Len(file)
                                   THEN pos + chunk_size ELSE Len(file))

\* "if sentences and not text_chunk.rstrip().endswith(...)": the last sentence
\* candidate is held back as carry-over
IsIncomplete(sentences, text_chunk) ==
    sentences # <<>> /\ ~EndsComplete(text_chunk)

\* Mutant of BufferFull: the threshold is off by one.
BufferFullOffByOne(buf) == Len(buf) >= MAX_SENTENCE_BUFFER - 1

\* "if len(sentence_buffer) >= MAX_SENTENCE_BUFFER"
BufferFull(buf) == Len(buf) >= MAX_SENTENCE_BUFFER

\* Mutant of BufferAfterYield: the buffer is not reset.
BufferNotReset(buf) == buf

\* "sentence_buffer = []" after a yield
BufferAfterYield(buf) == <<>>

\* final_chunk of the end-of-input flush
FinalChunk(buf, incomplete) ==
    IF incomplete # <<>> THEN JoinSp(buf) \o <<" ">> \o incomplete
                         ELSE JoinSp(buf)

\* Mutant of FlushNeeded: the final chunk is yielded unconditionally.
FlushAlways(buf, incomplete) == TRUE

\* "if sentence_buffer or incomplete_sentence: ... if final_chunk.strip():"
FlushNeeded(buf, incomplete) ==
    (buf # <<>> \/ incomplete # <<>>) /\ Strip(FinalChunk(buf, incomplete)) # <<>>

\* One iteration of the while loop: read, decode, split, carry over, buffer, yield.
ReadBlock ==
    /\ st = "open"
    /\ pos < Len(file)
    /\ LET binary_chunk == NextBlock
           d            == DecodeBlock(binary_chunk)
           text_chunk   == incomplete_sentence \o d.text
           split        == _split_sentences(text_chunk)
           carry        == IsIncomplete(split, text_chunk)
           sentences    == IF carry THEN SubSeq(split, 1, Len(split) - 1) ELSE split
           buf          == sentence_buffer \o sentences
       IN  IF d.raised
           THEN /\ st' = "raised"
                /\ UNCHANGED <<pos, decode_warnings, decoded, incomplete_sentence,
                               committed, yielded, chunk_id, sentence_buffer>>
           ELSE /\ st' = "open"
                /\ pos' = pos + Len(binary_chunk)
                /\ decode_warnings' = IF d.failed THEN decode_warnings + 1
                                                  ELSE decode_warnings
                /\ decoded' = decoded \o d.text
                /\ incomplete_sentence' = IF carry THEN split[Len(split)] ELSE <<>>
                /\ committed' = committed \o sentences
                /\ IF BufferFull(buf)
                   THEN /\ yielded' = Append(yielded,
                                         [text |-> JoinSp(buf), sents |-> buf,
                                          final |-> FALSE, at |-> pos'])
                        /\ chunk_id' = chunk_id + 1
                        /\ sentence_buffer' = BufferAfterYield(buf)
                   ELSE /\ sentence_buffer' = buf
                        /\ UNCHANGED <<yielded, chunk_id>>
    /\ UNCHANGED <<file, chunk_size>>
    /\ UNCHANGED outside_stream

\* f.read returns b'': leave the loop and yield the remaining sentences.
EndOfInput ==
    /\ st = "open"
    /\ pos = Len(file)
    /\ IF FlushNeeded(sentence_buffer, incomplete_sentence)
       THEN /\ yielded' = Append(yielded,
                             [text |-> FinalChunk(sentence_buffer, incomplete_sentence),
                              sents |-> IF incomplete_sentence # <<>>
                                        THEN Append(sentence_buffer, incomplete_sentence)
                                        ELSE sentence_buffer,
                              final |-> TRUE, at |-> pos])
            /\ chunk_id' = chunk_id + 1
       ELSE UNCHANGED <<yielded, chunk_id>>
    /\ st' = "done"
    /\ UNCHANGED <<file, chunk_size, pos, sentence_buffer, incomplete_sentence,
                   committed, decoded, decode_warnings>>
    /\ UNCHANGED outside_stream

NextStream == ReadBlock \/ EndOfInput

SpecStream == InitStream /\ [][NextStream]_vars

(***************************************************************************)
(* Properties of StreamingReader                                           *)
(***************************************************************************)
\* the source text: the file decoded as a whole
SourceText == DecodeIgnore(file)

\* the source text that follows byte position p
SourceAfter(p) == DecodeIgnore(SubSeq(file, p + 1, Len(file)))

ChunkTexts == [k \in 1..Len(yielded) |-> yielded[k].text]

\* C1: no yielded chunk ends immediately after the period of a listed
\* abbreviation while the sentence continues after it in the source (more
\* text than whitespace follows the position the chunk was cut at).
C1_NoChunkEndsAfterAbbreviation ==
    \A k \in 1..Len(yielded) :
        _is_abbreviation(yielded[k].text) => IsBlank(SourceAfter(yielded[k].at))

\* C2: every yielded chunk is non-empty after trimming; a source that is
\* empty or whitespace-only yields zero chunks.
C2_ChunksNonEmpty ==
    /\ \A k \in 1..Len(yielded) : Strip(yielded[k].text) # <<>>
    /\ (st = "done" /\ IsBlank(SourceText)) => yielded = <<>>

C2_Witness ==
    /\ st = "done"
    /\ file # <<>> /\ IsBlank(SourceText)
    /\ pos = Len(file) /\ yielded = <<>>

\* C3: for validly encoded input, the sentences the splitter completed (in
\* order, and at the end of input the carry-over still held) are exactly what
\* the yielded chunks and the sentence buffer hold, each once and in the same
\* order; no character of the decoded text other than whitespace is lost.
C3_SentencesPreserved ==
    ValidUtf8(file) =>
        LET stripped == [k \in 1..Len(yielded) |-> Strip(yielded[k].text)]
            rest == IF st = "done"
                    THEN (IF incomplete_sentence # <<>> THEN <<incomplete_sentence>>
                                                        ELSE <<>>)
                    ELSE <<>>
            held == IF st = "done" THEN <<>> ELSE sentence_buffer
        IN  /\ JoinSp(stripped \o held) = JoinSp(committed \o rest)
            /\ st = "done" => NonWs(Concat(ChunkTexts)) = NonWs(decoded)

C3_Witness ==
    /\ st = "done" /\ ValidUtf8(file)
    /\ Len(yielded) = 2
    /\ yielded[2].sents # <<>> /\ incomplete_sentence # <<>>
    /\ chunk_size = 1

\* C4: a source of ASCII characters with a non-whitespace character and no
\* terminal punctuation yields exactly one chunk, at end of input, that
\* contains the entire (trimmed) text of the source.
C4_NoPunctuationOneChunk ==
    (/\ st = "done"
     /\ \A i \in 1..Len(file) : file[i] \notin (Terminal \cup {"C3", "A9"})
     /\ ~IsBlank(SourceText))
    => /\ Len(yielded) = 1
       /\ yielded[1].final
       /\ IsSubstring(Strip(SourceText), yielded[1].text)

C6_DecodeFailureNonFatal ==
    [][ /\ (st = "open" /\ pos < Len(file) /\ ~ValidUtf8(NextBlock)) =>
            /\ st' = "open"
            /\ pos' = pos + Len(NextBlock)
            /\ decode_warnings' = decode_warnings + 1
            /\ SelectSeq(decoded', LAMBDA c : c # "E9")
                 = SelectSeq(decoded, LAMBDA c : c # "E9")
                   \o SelectSeq(NextBlock, LAMBDA b : b \notin {"C3", "A9"})
            /\ IsPrefix(committed, committed')
            /\ IF Len(yielded') > Len(yielded)
               THEN IsPrefix(sentence_buffer, yielded'[Len(yielded')].sents)
               ELSE IsPrefix(sentence_buffer, sentence_buffer')
            /\ IsPrefix(NonWs(incomplete_sentence),
                        NonWs(Concat(SubSeq(committed', Len(committed) + 1,
                                            Len(committed')))
                              \o incomplete_sentence'))
        /\ st' # "raised"
        /\ st' = "done" => pos' = Len(file)
      ]_vars

C6_Witness ==
    /\ st = "done"
    /\ decode_warnings >= 2
    /\ committed # <<>>
    /\ yielded # <<>>

(***************************************************************************)
(* Text of the extractors: the words of the program's tables and of the    *)
(* model's input chunks, as sequences of characters                        *)
(***************************************************************************)
Str ==
    "chapter" :> <<"c", "h", "a", "p", "t", "e", "r">> @@
    "act" :> <<"a", "c", "t">> @@
    "scene" :> <<"s", "c", "e", "n", "e">> @@
    "part" :> <<"p", "a", "r", "t">> @@
    "book" :> <<"b", "o", "o", "k">> @@
    "section" :> <<"s", "e", "c", "t", "i", "o", "n">> @@
    "is" :> <<"i", "s">> @@
    "was" :> <<"w", "a", "s">> @@
    "were" :> <<"w", "e", "r", "e">> @@
    "am" :> <<"a", "m">> @@
    "are" :> <<"a", "r", "e">> @@
    "been" :> <<"b", "e", "e", "n">> @@
    "being" :> <<"b", "e", "i", "n", "g">> @@
    "became" :> <<"b", "e", "c", "a", "m", "e">> @@
    "becomes" :> <<"b", "e", "c", "o", "m", "e", "s">> @@
    "becoming" :> <<"b", "e", "c", "o", "m", "i", "n", "g">> @@
    "died" :> <<"d", "i", "e", "d">> @@
    "dies" :> <<"d", "i", "e", "s">> @@
    "dying" :> <<"d", "y", "i", "n", "g">> @@
    "dead" :> <<"d", "e", "a", "d">> @@
    "killed" :> <<"k", "i", "l", "l", "e", "d">> @@
    "kills" :> <<"k", "i", "l", "l", "s">> @@
    "killing" :> <<"k", "i", "l", "l", "i", "n", "g">> @@
    "married" :> <<"m", "a", "r", "r", "i", "e", "d">> @@
    "marries" :> <<"m", "a", "r", "r", "i", "e", "s">> @@
    "marrying" :> <<"m", "a", "r", "r", "y", "i", "n", "g">> @@
    "left" :> <<"l", "e", "f", "t">> @@
    "leaves" :> <<"l", "e", "a", "v", "e", "s">> @@
    "leaving" :> <<"l", "e", "a", "v", "i", "n", "g">> @@
    "arrived" :> <<"a", "r", "r", "i", "v", "e", "d">> @@
    "arrives" :> <<"a", "r", "r", "i", "v", "e", "s">> @@
    "arriving" :> <<"a", "r", "r", "i", "v", "i", "n", "g">> @@
    "owned" :> <<"o", "w", "n", "e", "d">> @@
    "owns" :> <<"o", "w", "n", "s">> @@
    "owning" :> <<"o", "w", "n", "i", "n", "g">> @@
    "possessed" :> <<"p", "o", "s", "s", "e", "s", "s", "e", "d">> @@
    "possesses" :> <<"p", "o", "s", "s", "e", "s", "s", "e", "s">> @@
    "possessing" :> <<"p", "o", "s", "s", "e", "s", "s", "i", "n", "g">> @@
    "be" :> <<"b", "e">> @@
    "become" :> <<"b", "e", "c", "o", "m", "e">> @@
    "die" :> <<"d", "i", "e">> @@
    "kill" :> <<"k", "i", "l", "l">> @@
    "marry" :> <<"m", "a", "r", "r", "y">> @@
    "leave" :> <<"l", "e", "a", "v", "e">> @@
    "arrive" :> <<"a", "r", "r", "i", "v", "e">> @@
    "own" :> <<"o", "w", "n">> @@
    "possess" :> <<"p", "o", "s", "s", "e", "s", "s">> @@
    "maybe" :> <<"m", "a", "y", "b", "e">> @@
    "perhaps" :> <<"p", "e", "r", "h", "a", "p", "s">> @@
    "possibly" :> <<"p", "o", "s", "s", "i", "b", "l", "y">> @@
    "might" :> <<"m", "i", "g", "h", "t">> @@
    "could" :> <<"c", "o", "u", "l", "d">> @@
    "seemed" :> <<"s", "e", "e", "m", "e", "d">> @@
    "like" :> <<"l", "i", "k", "e">> @@
    "metaphorically" :> <<"m", "e", "t", "a", "p", "h", "o", "r", "i", "c", "a", "l", "l", "y">> @@
    "figuratively" :> <<"f", "i", "g", "u", "r", "a", "t", "i", "v", "e", "l", "y">> @@
    "alive" :> <<"a", "l", "i", "v", "e">> @@
    "living" :> <<"l", "i", "v", "i", "n", "g">> @@
    "perished" :> <<"p", "e", "r", "i", "s", "h", "e", "d">> @@
    "wealthy" :> <<"w", "e", "a", "l", "t", "h", "y">> @@
    "rich" :> <<"r", "i", "c", "h">> @@
    "poor" :> <<"p", "o", "o", "r">> @@
    "destitute" :> <<"d", "e", "s", "t", "i", "t", "u", "t", "e">> @@
    "young" :> <<"y", "o", "u", "n", "g">> @@
    "old" :> <<"o", "l", "d">> @@
    "aged" :> <<"a", "g", "e", "d">> @@
    "single" :> <<"s", "i", "n", "g", "l", "e">> @@
    "widowed" :> <<"w", "i", "d", "o", "w", "e", "d">> @@
    "wealth" :> <<"w", "e", "a", "l", "t", "h">> @@
    "age" :> <<"a", "g", "e">> @@
    "marital_status" :> <<"m", "a", "r", "i", "t", "a", "l", "_", "s", "t", "a", "t", "u", "s">> @@
    "present" :> <<"p", "r", "e", "s", "e", "n", "t">> @@
    "absent" :> <<"a", "b", "s", "e", "n", "t">> @@
    "The" :> <<"T", "h", "e">> @@
    "A" :> <<"A">> @@
    "An" :> <<"A", "n">> @@
    "This" :> <<"T", "h", "i", "s">> @@
    "That" :> <<"T", "h", "a", "t">> @@
    "These" :> <<"T", "h", "e", "s", "e">> @@
    "Those" :> <<"T", "h", "o", "s", "e">> @@
    "It" :> <<"I", "t">> @@
    "He" :> <<"H", "e">> @@
    "She" :> <<"S", "h", "e">> @@
    "They" :> <<"T", "h", "e", "y">> @@
    "What" :> <<"W", "h", "a", "t">> @@
    "When" :> <<"W", "h", "e", "n">> @@
    "Where" :> <<"W", "h", "e", "r", "e">> @@
    "Chapter" :> <<"C", "h", "a", "p", "t", "e", "r">> @@
    "1" :> <<"1">> @@
    "2" :> <<"2">> @@
    "Edmund" :> <<"E", "d", "m", "u", "n", "d">> @@
    "Lord" :> <<"L", "o", "r", "d">> @@
    "king" :> <<"k", "i", "n", "g">> @@
    "likely" :> <<"l", "i", "k", "e", "l", "y">> @@
    "Unknown" :> <<"U", "n", "k", "n", "o", "w", "n">> @@
    "." :> <<".">> @@
    "?" :> <<"?">> @@
    "!" :> <<"!">> @@
    "as if" :> <<"a", "s", " ", "i", "f">> @@
    "Act II" :> <<"A", "c", "t", " ", "I", "I">> @@
    "Ch1" :> <<"C", "h", "1">> @@
    "Ch5" :> <<"C", "h", "5">> @@
    "CONTRADICTION" :> <<"C", "O", "N", "T", "R", "A", "D", "I", "C", "T", "I", "O", "N">>


UpperLetters == <<"A","B","C","D","E","F","G","H","I","J","K","L","M",
                  "N","O","P","Q","R","S","T","U","V","W","X","Y","Z">>
LowerLetters == <<"a","b","c","d","e","f","g","h","i","j","k","l","m",
                  "n","o","p","q","r","s","t","u","v","w","x","y","z">>
Digits == {"0","1","2","3","4","5","6","7","8","9"}

UpperSet == {UpperLetters[i] : i \in 1..26}
LowerSet == {LowerLetters[i] : i \in 1..26}

\* str.isupper() of one character
IsUpper(c) == c \in UpperSet
Letters == UpperSet \cup LowerSet
IsLetter(c) == c \in Letters
\* \w of the re module
WordChars == Letters \cup Digits \cup {"_"}
IsWordChar(c) == c \in WordChars

LowerChar(c) ==
    IF c \in UpperSet
    THEN LowerLetters[CHOOSE i \in 1..26 : UpperLetters[i] = c]
    ELSE c
UpperChar(c) ==
    IF c \in LowerSet
    THEN UpperLetters[CHOOSE i \in 1..26 : LowerLetters[i] = c]
    ELSE c

\* str.lower()
Lower(s) == [i \in 1..Len(s) |-> LowerChar(s[i])]

\* str.title() of a one-word keyword
Title(s) == [i \in 1..Len(s) |-> IF i = 1 THEN UpperChar(s[i]) ELSE LowerChar(s[i])]

\* str.startswith(prefix)
StartsWith(s, prefix) == Len(prefix) <= Len(s) /\ SubSeq(s, 1, Len(prefix)) = prefix

\* str.split(): the maximal runs of non-whitespace characters
RECURSIVE SplitWords(_, _, _, _)
SplitWords(s, i, words, current) ==
    IF i > Len(s)
    THEN IF current # <<>> THEN Append(words, current) ELSE words
    ELSE IF s[i] \in Whitespace
         THEN SplitWords(s, i + 1,
                         IF current # <<>> THEN Append(words, current) ELSE words,
                         <<>>)
         ELSE SplitWords(s, i + 1, words, Append(current, s[i]))

WordsOf(s) == SplitWords(s, 1, <<>>, <<>>)

(***************************************************************************)
(* The chunks and arguments of the calls on an extractor: a chunk is an    *)
(* optional marker sentence followed by an optional fact                   *)
(***************************************************************************)
Period == <<".">>

MarkerPhrases ==
    { <<>>,
      JoinSp(<<Str["Chapter"], Str["1"]>>) \o Period,
      JoinSp(<<Str["scene"], Str["2"]>>) \o Period }

FactPhrases ==
    { <<>>,
      JoinSp(<<Str["Edmund"], Str["was"], Str["dead"]>>) \o Period,
      JoinSp(<<Str["Lord"], Str["Edmund"], Str["is"], Str["alive"]>>) \o Period,
      JoinSp(<<Str["The"], Str["king"], Str["died"]>>) \o Period }

ContextChunks ==
    { JoinSp(SelectSeq(<<m, f>>, LAMBDA part : part # <<>>)) :
        m \in MarkerPhrases, f \in FactPhrases }

ContextArgs == {NoneVal, Str["Ch5"]}

Parses == [subj : BOOLEAN, val : BOOLEAN]

(***************************************************************************)
(* config.py                                                               *)
(***************************************************************************)
TEMPORAL_KEYWORDS ==
    <<Str["chapter"], Str["act"], Str["scene"], Str["part"], Str["book"],
      Str["section"]>>

STATE_VERBS ==
    [be      |-> {"is", "was", "were", "am", "are", "been", "being"},
     become  |-> {"became", "becomes", "becoming"},
     die     |-> {"died", "dies", "dying", "dead"},
     kill    |-> {"killed", "kills", "killing"},
     marry   |-> {"married", "marries", "marrying"},
     leave   |-> {"left", "leaves", "leaving"},
     arrive  |-> {"arrived", "arrives", "arriving"},
     own     |-> {"owned", "owns", "owning"},
     possess |-> {"possessed", "possesses", "possessing"}]

ALL_STATE_VERBS ==
    { Str[w] : w \in UNION { STATE_VERBS[k] : k \in DOMAIN STATE_VERBS } }

(***************************************************************************)
(* _detect_time_context (claims.py and claims_simple.py, same code)        *)
(***************************************************************************)
NumeralChars == {"I", "V", "X", "i", "v", "x"} \cup Digits

\* The match of rf'\b{keyword}\s+([IVX\d]+)\b', re.IGNORECASE, that starts at
\* position p of text: the captured numeral, or NoneVal when there is none.
\* \s+ and [IVX\d]+ are greedy and the closing \b forbids a shorter numeral.
KeywordMatchAt(keyword, text, p) ==
    LET n  == Len(text)
        e  == p + Len(keyword) - 1
    IN  IF ~( /\ e <= n
              /\ (p = 1 \/ ~IsWordChar(text[p - 1]))
              /\ Lower(SubSeq(text, p, e)) = keyword )
        THEN NoneVal
        ELSE LET spaces == {j \in (e + 1)..n :
                              \A k \in (e + 1)..j : text[k] \in Whitespace}
                 b == e + Cardinality(spaces) + 1     \* first numeral position
                 nums == {j \in b..n : \A k \in b..j : text[k] \in NumeralChars}
                 f == b + Cardinality(nums) - 1       \* last numeral position
             IN  IF spaces # {} /\ nums # {} /\ (f = n \/ ~IsWordChar(text[f + 1]))
                 THEN SubSeq(text, b, f)
                 ELSE NoneVal

\* Mutant of KeywordSearch: the rightmost match is taken.
KeywordSearchLast(keyword, text) ==
    LET hits == {p \in 1..Len(text) : KeywordMatchAt(keyword, text, p) # NoneVal}
    IN  IF hits = {} THEN NoneVal
        ELSE LET p == CHOOSE q \in hits : \A r \in hits : q >= r
             IN  Title(keyword) \o <<" ">> \o KeywordMatchAt(keyword, text, p)

\* re.search for one keyword: the leftmost match
KeywordSearch(keyword, text) ==
    LET hits == {p \in 1..Len(text) : KeywordMatchAt(keyword, text, p) # NoneVal}
    IN  IF hits = {} THEN NoneVal
        ELSE LET p == CHOOSE q \in hits : \A r \in hits : q <= r
             IN  Title(keyword) \o <<" ">> \o KeywordMatchAt(keyword, text, p)

\* the for loop over TEMPORAL_KEYWORDS from index i: the first keyword that matches
RECURSIVE DetectFrom(_, _)
DetectFrom(i, text) ==
    IF i > Len(TEMPORAL_KEYWORDS) THEN NoneVal
    ELSE LET found == KeywordSearch(TEMPORAL_KEYWORDS[i], text)
         IN  IF found # NoneVal THEN found ELSE DetectFrom(i + 1, text)

_detect_time_context(text) == DetectFrom(1, text)

\* _detect_time_context of the chunks that many states are called with,
\* computed once
DetectedInChunk == [text \in ContextChunks |-> _detect_time_context(text)]

Detected(text) ==
    IF text \in ContextChunks THEN DetectedInChunk[text]
    ELSE _detect_time_context(text)

\* the values self.current_time_context takes over these chunks and arguments
Contexts ==
    ({Str["Unknown"]} \cup ContextArgs \cup {Detected(text) : text \in ContextChunks})
        \ {NoneVal}

\* Mutant of ContextStep: the context is not sticky (reset when no marker is found).
ContextStepNotSticky(current, text, time_context) ==
    IF time_context = NoneVal
    THEN LET detected_context == Detected(text)
         IN  IF detected_context # NoneVal THEN detected_context ELSE Str["Unknown"]
    ELSE time_context

\* "Update time context" of extract_from_chunk: the new current_time_context
ContextStep(current, text, time_context) ==
    IF time_context = NoneVal
    THEN LET detected_context == Detected(text)
         IN  IF detected_context # NoneVal THEN detected_context ELSE current
    ELSE time_context

(***************************************************************************)
(* SimplifiedClaimExtractor (claims_simple.py)                             *)
(***************************************************************************)
\* re.split(r'[.!?]+', text): the pieces between the runs of terminal
\* punctuation, empty pieces at the ends included
RECURSIVE ReSplitLoop(_, _, _, _)
ReSplitLoop(text, i, pieces, current) ==
    IF i > Len(text) THEN Append(pieces, current)
    ELSE IF text[i] \in Terminal
         THEN IF i > 1 /\ text[i - 1] \in Terminal
              THEN ReSplitLoop(text, i + 1, pieces, current)
              ELSE ReSplitLoop(text, i + 1, Append(pieces, current), <<>>)
         ELSE ReSplitLoop(text, i + 1, pieces, Append(current, text[i]))

ReSplit(text) == ReSplitLoop(text, 1, <<>>, <<>>)

\* self.state_patterns: the words after the entity group, the captured
\* alternatives in the order of the alternation, the attribute and the
\* implicit value (NoneVal for a two-element pattern_data)
Copula == <<Str["was"], Str["is"], Str["were"]>>

state_patterns ==
    << [copula |-> TRUE,  alts |-> <<Str["alive"], Str["dead"], Str["living"]>>,
        attribute |-> Str["alive"], implicit_value |-> NoneVal],
       [copula |-> FALSE, alts |-> <<Str["died"], Str["perished"]>>,
        attribute |-> Str["alive"], implicit_value |-> Str["dead"]],
       [copula |-> TRUE,  alts |-> <<Str["wealthy"], Str["rich"], Str["poor"],
                                     Str["destitute"]>>,
        attribute |-> Str["wealth"], implicit_value |-> NoneVal],
       [copula |-> TRUE,  alts |-> <<Str["young"], Str["old"], Str["aged"]>>,
        attribute |-> Str["age"], implicit_value |-> NoneVal],
       [copula |-> TRUE,  alts |-> <<Str["married"], Str["single"], Str["widowed"]>>,
        attribute |-> Str["marital_status"], implicit_value |-> NoneVal] >>

\* last position of the maximal run of letters that starts at p (p - 1 if none)
RECURSIVE WordEnd(_, _)
WordEnd(s, p) ==
    IF p <= Len(s) /\ IsLetter(s[p]) THEN WordEnd(s, p + 1) ELSE p - 1

\* first position from p on that is not whitespace: the end of \s*
RECURSIVE SkipWs(_, _)
SkipWs(s, p) ==
    IF p <= Len(s) /\ s[p] \in Whitespace THEN SkipWs(s, p + 1) ELSE p

\* An entity [A-Z][a-z]+(?:\s+[A-Z][a-z]+)* that is followed by \s+ is made of
\* whole runs of two or more letters (under re.IGNORECASE both classes are the
\* letters), separated by whitespace.
\* the first alternative of alts that matches at position q, ignoring case:
\* its index, or 0
AltAt(alts, s, q) ==
    LET hits == {a \in 1..Len(alts) :
                    /\ q + Len(alts[a]) - 1 <= Len(s)
                    /\ Lower(SubSeq(s, q, q + Len(alts[a]) - 1)) = alts[a]}
    IN  IF hits = {} THEN 0 ELSE CHOOSE a \in hits : \A b \in hits : a <= b

\* The rest of a pattern after an entity that ends at e: \s+ (copula \s+)? alt.
\* Gives whether it matches, the last position of the match and the text of
\* the second group (NoneVal when the pattern has one group only).
NoMatch == [found |-> FALSE, last |-> 0, group1 |-> NoneVal, group2 |-> NoneVal]

TailAt(pat, s, e) ==
    LET q == SkipWs(s, e + 1)
    IN  IF q = e + 1 THEN NoMatch
        ELSE IF pat.copula
             THEN LET c == AltAt(Copula, s, q)
                      q1 == q + (IF c = 0 THEN 0 ELSE Len(Copula[c]))
                      q2 == SkipWs(s, q1)
                      a == AltAt(pat.alts, s, q2)
                  IN  IF c = 0 \/ q2 = q1 \/ a = 0 THEN NoMatch
                      ELSE [NoMatch EXCEPT !.found = TRUE,
                               !.last = q2 + Len(pat.alts[a]) - 1,
                               !.group2 = SubSeq(s, q2, q2 + Len(pat.alts[a]) - 1)]
             ELSE LET a == AltAt(pat.alts, s, q)
                  IN  IF a = 0 THEN NoMatch
                      ELSE [NoMatch EXCEPT !.found = TRUE,
                               !.last = q + Len(pat.alts[a]) - 1]

\* The match of a pattern that starts at p: the quantifiers are greedy, so
\* the longest entity that lets the rest match.
RECURSIVE MatchFrom(_, _, _, _)
MatchFrom(pat, s, p, q) ==
    LET r      == WordEnd(s, q)
        q1     == SkipWs(s, r + 1)
        longer == IF q1 > r + 1 /\ q1 <= Len(s) THEN MatchFrom(pat, s, p, q1)
                  ELSE NoMatch
        here   == TailAt(pat, s, r)
    IN  IF r - q + 1 < 2 THEN NoMatch
        ELSE IF longer.found THEN longer
        ELSE IF here.found THEN [here EXCEPT !.group1 = SubSeq(s, p, r)]
        ELSE NoMatch

MatchAt(pat, s, p) == MatchFrom(pat, s, p, p)

\* re.search from position p on: the leftmost match.  When no match starts at
\* a letter, none starts later in the same run of letters, as the rest of the
\* pattern would meet the same text.
RECURSIVE SearchFrom(_, _, _)
SearchFrom(pat, s, p) ==
    IF p > Len(s) THEN NoMatch
    ELSE IF ~IsLetter(s[p]) THEN SearchFrom(pat, s, p + 1)
    ELSE LET m == MatchAt(pat, s, p)
         IN  IF m.found THEN m ELSE SearchFrom(pat, s, WordEnd(s, p) + 1)

\* re.finditer(pattern, sent, re.IGNORECASE) from position p on: the
\* non-overlapping matches, leftmost first
RECURSIVE FindIter(_, _, _)
FindIter(pat, s, p) ==
    LET m == SearchFrom(pat, s, p)
    IN  IF m.found THEN <<m>> \o FindIter(pat, s, m.last + 1) ELSE <<>>

non_names ==
    { Str[w] : w \in {"The", "A", "An", "This", "That", "These", "Those",
                      "It", "He", "She", "They", "What", "When", "Where"} }

_is_likely_name(text) ==
    IF text = <<>> \/ ~IsUpper(text[1]) THEN FALSE
    ELSE IF WordsOf(text)[1] \in non_names THEN FALSE
    ELSE IF Len(text) > MAX_NAME_LENGTH THEN FALSE
    ELSE TRUE

\* Claim(entity, attribute, value, time_context, source_text, chunk_id, confidence)
Claim(entity, attribute, value, time_context, source_text, cid, confidence) ==
    [entity |-> entity, attribute |-> attribute, value |-> value,
     time_context |-> time_context, source_text |-> source_text,
     chunk_id |-> cid, confidence |-> confidence]

\* "for match in matches": the claims of the matches from index i on
RECURSIVE MatchClaims(_, _, _, _, _, _)
MatchClaims(matches, i, pat, sent, cid, ctx) ==
    IF i > Len(matches) THEN <<>>
    ELSE LET entity == Strip(matches[i].group1)
             value  == IF pat.implicit_value # NoneVal THEN pat.implicit_value
                       ELSE Lower(Strip(matches[i].group2))
             rest   == MatchClaims(matches, i + 1, pat, sent, cid, ctx)
         IN  IF _is_likely_name(entity)
             THEN <<Claim(entity, pat.attribute, value, ctx, Strip(sent), cid,
                          SIMPLE_CONFIDENCE)>> \o rest
             ELSE rest

\* "for pattern_data in self.state_patterns": the claims of one sentence
RECURSIVE PatternClaims(_, _, _, _)
PatternClaims(k, sent, cid, ctx) ==
    IF k > Len(state_patterns) THEN <<>>
    ELSE MatchClaims(FindIter(state_patterns[k], sent, 1), 1, state_patterns[k],
                     sent, cid, ctx)
         \o PatternClaims(k + 1, sent, cid, ctx)

\* "for sent in sentences": sentences shorter than 10 characters are skipped
RECURSIVE SentenceClaims(_, _, _, _)
SentenceClaims(sentences, i, cid, ctx) ==
    IF i > Len(sentences) THEN <<>>
    ELSE (IF Len(Strip(sentences[i])) < MIN_SENTENCE_LENGTH THEN <<>>
          ELSE PatternClaims(1, sentences[i], cid, ctx))
         \o SentenceClaims(sentences, i + 1, cid, ctx)

\* the claims list that extract_from_chunk returns, given the context it set
SimpleClaims(text, cid, ctx) == SentenceClaims(ReSplit(text), 1, cid, ctx)

\* SimpleClaims of the calls that many states make, computed once
SimpleClaimsOfChunk ==
    [text \in ContextChunks, cid \in 0..(MaxCalls - 1), ctx \in Contexts |->
        SimpleClaims(text, cid, ctx)]

SimpleClaimsAt(text, cid, ctx) ==
    IF text \in ContextChunks /\ cid < MaxCalls /\ ctx \in Contexts
    THEN SimpleClaimsOfChunk[text, cid, ctx]
    ELSE SimpleClaims(text, cid, ctx)

(***************************************************************************)
(* ClaimExtractor (claims.py)                                              *)
(*                                                                         *)
(* spaCy is outside the repository.  Its sentence segmentation is taken to *)
(* cut after each run of terminal punctuation, its tokens to be the words  *)
(* without their punctuation, and its dependency parse is an input of the  *)
(* call: whether the verb tokens of the chunk have a subject child and a   *)
(* value child.  The subject is then the word before the verb and the      *)
(* value the word after it.                                                *)
(***************************************************************************)
uncertainty_markers ==
    <<Str["maybe"], Str["perhaps"], Str["possibly"], Str["might"], Str["could"],
      Str["seemed"]>>
metaphor_markers ==
    <<Str["like"], Str["as if"], Str["metaphorically"], Str["figuratively"]>>

\* the number of markers of the list that occur in text.lower(): each
\* "if marker in text.lower()" subtracts once, however often the marker occurs
MarkersIn(markers, text) ==
    Cardinality({k \in 1..Len(markers) : IsSubstring(markers[k], Lower(text))})

\* confidence before the clamp, in tenths
RawConfidence(text) ==
    10 - UNCERTAINTY_PENALTY * MarkersIn(uncertainty_markers, text)
       - METAPHOR_PENALTY * MarkersIn(metaphor_markers, text)
       - (IF EndsWith(Strip(text), <<"?">>) THEN QUESTION_PENALTY ELSE 0)

Min(a, b) == IF a < b THEN a ELSE b
Max(a, b) == IF a > b THEN a ELSE b

\* Mutant of _calculate_confidence: the penalties are not clamped.
_calculate_confidence_unclamped(text) == RawConfidence(text)

\* return max(0.0, min(1.0, confidence))
_calculate_confidence(text) == Max(0, Min(10, RawConfidence(text)))

\* Mutant of BelowThreshold: a candidate exactly at the threshold is dropped too.
BelowOrAtThreshold(confidence) == confidence <= MIN_CLAIM_CONFIDENCE

\* if confidence < MIN_CLAIM_CONFIDENCE: return None
BelowThreshold(confidence) == confidence < MIN_CLAIM_CONFIDENCE

\* doc.sents: the text cut after each run of terminal punctuation
RECURSIVE SentsLoop(_, _, _, _)
SentsLoop(text, i, sents, current) ==
    IF i > Len(text)
    THEN IF IsBlank(current) THEN sents ELSE Append(sents, current)
    ELSE IF text[i] \in Terminal /\ (i = Len(text) \/ text[i + 1] \notin Terminal)
         THEN SentsLoop(text, i + 1, Append(sents, Append(current, text[i])), <<>>)
         ELSE SentsLoop(text, i + 1, sents, Append(current, text[i]))

Sents(text) == SentsLoop(text, 1, <<>>, <<>>)

\* the tokens of a sentence that are words: punctuation is a token of its own
TokenText(word) == SelectSeq(word, LAMBDA c : c \notin Terminal)
Tokens(sent) ==
    SelectSeq([i \in 1..Len(WordsOf(sent)) |-> TokenText(WordsOf(sent)[i])],
              LAMBDA w : w # <<>>)

\* token.lemma_ of a verb form of STATE_VERBS
Lemma(form) ==
    LET keys == {k \in DOMAIN STATE_VERBS : \E w \in STATE_VERBS[k] : Str[w] = form}
    IN  Str[CHOOSE k \in keys : TRUE]

\* _build_claim_from_verb for the token at index t: the candidate it computes.
\* reached is whether the confidence step was reached, built whether a Claim
\* was returned.
NoCandidate == [reached |-> FALSE, built |-> FALSE, confidence |-> 0,
                source_text |-> <<>>, claim |-> <<>>]

_build_claim_from_verb(tokens, t, sent, cid, ctx, parse) ==
    LET lemma  == Lemma(Lower(tokens[t]))
        entity == IF parse.subj /\ t > 1 THEN tokens[t - 1] ELSE NoneVal
        found  == IF parse.val /\ t < Len(tokens) THEN tokens[t + 1] ELSE NoneVal
        implicit == lemma \in {Str["die"], Str["kill"]} /\ found = NoneVal
        value  == IF implicit THEN Str["dead"] ELSE found
        attribute == IF implicit THEN Str["alive"] ELSE lemma
        confidence == _calculate_confidence(sent)
    IN  IF entity = NoneVal \/ value = NoneVal THEN NoCandidate
        ELSE IF BelowThreshold(confidence)
             THEN [NoCandidate EXCEPT !.reached = TRUE, !.confidence = confidence,
                                      !.source_text = Strip(sent)]
             ELSE [reached |-> TRUE, built |-> TRUE, confidence |-> confidence,
                   source_text |-> Strip(sent),
                   claim |-> <<Claim(entity, attribute, value, ctx, Strip(sent),
                                     cid, confidence)>>]

\* _extract_from_sentence: one candidate per token whose text is a state verb
_extract_from_sentence(sent, cid, ctx, parse) ==
    LET tokens == Tokens(sent)
        verbs  == SelectSeq([t \in 1..Len(tokens) |-> t],
                            LAMBDA t : Lower(tokens[t]) \in ALL_STATE_VERBS)
    IN  [k \in 1..Len(verbs) |->
            _build_claim_from_verb(tokens, verbs[k], sent, cid, ctx, parse)]

\* "for sent in doc.sents": the candidates of the chunk, in order
RECURSIVE NlpCandidatesFrom(_, _, _, _, _)
NlpCandidatesFrom(sents, i, cid, ctx, parse) ==
    IF i > Len(sents) THEN <<>>
    ELSE _extract_from_sentence(sents[i], cid, ctx, parse)
         \o NlpCandidatesFrom(sents, i + 1, cid, ctx, parse)

NlpCandidates(text, cid, ctx, parse) ==
    SelectSeq(NlpCandidatesFrom(Sents(text), 1, cid, ctx, parse),
              LAMBDA c : c.reached)

\* NlpCandidates of the calls that many states make, computed once
NlpCandidatesOfChunk ==
    [text \in ContextChunks, cid \in 0..(MaxCalls - 1), ctx \in Contexts,
     parse \in Parses |-> NlpCandidates(text, cid, ctx, parse)]

NlpCandidatesAt(text, cid, ctx, parse) ==
    IF text \in ContextChunks /\ cid < MaxCalls /\ ctx \in Contexts
    THEN NlpCandidatesOfChunk[text, cid, ctx, parse]
    ELSE NlpCandidates(text, cid, ctx, parse)

\* claims.extend(sent_claims): the claims of the candidates that were built
RECURSIVE ClaimsOf(_, _)
ClaimsOf(cands, i) ==
    IF i > Len(cands) THEN <<>>
    ELSE cands[i].claim \o ClaimsOf(cands, i + 1)

\* what the call records of a candidate
Outcome(c) == [confidence |-> c.confidence, built |-> c.built,
               source_text |-> c.source_text]

(***************************************************************************)
(* extract_from_chunk of the two extractors                                *)
(***************************************************************************)
\* SimplifiedClaimExtractor.extract_from_chunk(text, chunk_id, time_context),
\* given the time context it sets and the claims it builds
SimpleCallReturns(text, time_context, ctx, claims) ==
    /\ ex_kind = "simple"
    /\ current_time_context' = ctx
    /\ returned' = claims
    /\ candidates' = [i \in 1..Len(claims) |->
                        [confidence |-> claims[i].confidence, built |-> TRUE,
                         source_text |-> claims[i].source_text]]
    /\ call_log' = Append(call_log, [arg |-> time_context, marker |-> Detected(text)])
    /\ ex_calls' = ex_calls + 1
    /\ UNCHANGED ex_kind
    /\ UNCHANGED outside_extract

\* SimplifiedClaimExtractor.extract_from_chunk(text, chunk_id, time_context)
extract_from_chunk(text, cid, time_context) ==
    \E ctx \in {ContextStep(current_time_context, text, time_context)} :
    \E claims \in {SimpleClaims(text, cid, ctx)} :
        SimpleCallReturns(text, time_context, ctx, claims)

\* the same call by a caller that numbers the chunks from 0, on one of the
\* chunks of ContextChunks
extract_from_chunk_simple(text, time_context) ==
    \E ctx \in {ContextStep(current_time_context, text, time_context)} :
    \E claims \in {SimpleClaimsAt(text, ex_calls, ctx)} :
        SimpleCallReturns(text, time_context, ctx, claims)

\* ClaimExtractor.extract_from_chunk(text, chunk_id, time_context), with the
\* dependency parse that self.nlp(text) produced
extract_from_chunk_nlp(text, time_context, parse) ==
    /\ ex_kind = "nlp"
    /\ \E ctx \in {ContextStep(current_time_context, text, time_context)} :
       \E cands \in {NlpCandidatesAt(text, ex_calls, ctx, parse)} :
          /\ current_time_context' = ctx
          /\ returned' = ClaimsOf(cands, 1)
          /\ candidates' = [i \in 1..Len(cands) |-> Outcome(cands[i])]
    /\ call_log' = Append(call_log, [arg |-> time_context, marker |-> Detected(text)])
    /\ ex_calls' = ex_calls + 1
    /\ UNCHANGED ex_kind
    /\ UNCHANGED outside_extract

\* __init__ of either extractor
InitExtractor ==
    /\ ex_kind \in {"simple", "nlp"}
    /\ current_time_context = Str["Unknown"]
    /\ ex_calls = 0
    /\ returned = <<>>
    /\ candidates = <<>>
    /\ call_log = <<>>

(***************************************************************************)
(* A document read chunk by chunk: sequences of calls on one extractor     *)
(***************************************************************************)
InitExtract == OutsideExtractIdle /\ InitExtractor

SimpleExtract ==
    \E text \in ContextChunks, time_context \in ContextArgs :
        /\ ex_calls < MaxCalls
        /\ extract_from_chunk_simple(text, time_context)
        /\ UNCHANGED pipe_vars

NlpExtract ==
    \E text \in ContextChunks, time_context \in ContextArgs, parse \in Parses :
        /\ ex_calls < MaxCalls
        /\ extract_from_chunk_nlp(text, time_context, parse)
        /\ UNCHANGED pipe_vars

NextExtract == SimpleExtract \/ NlpExtract

SpecExtract == InitExtract /\ [][NextExtract]_vars

(***************************************************************************)
(* One call on a fresh extractor with a hedged sentence                    *)
(***************************************************************************)
Hedges ==
    { Str["maybe"], Str["might"], Str["seemed"], Str["like"], Str["as if"],
      Str["likely"] }

Fact == <<Str["Edmund"], Str["was"], Str["dead"]>>

HedgedChunks ==
    { JoinSp(hs \o Fact) \o end :
        hs \in UNION { [1..n -> Hedges] : n \in 0..MaxHedges },
        end \in {<<".">>, <<"?">>} }

SimpleHedged ==
    \E text \in HedgedChunks :
        /\ ex_calls = 0
        /\ extract_from_chunk_simple(text, NoneVal)
        /\ UNCHANGED pipe_vars

NlpHedged ==
    \E text \in HedgedChunks, parse \in Parses :
        /\ ex_calls = 0
        /\ extract_from_chunk_nlp(text, NoneVal, parse)
        /\ UNCHANGED pipe_vars

NextConfidence == SimpleHedged \/ NlpHedged

SpecConfidence == InitExtract /\ [][NextConfidence]_vars

(***************************************************************************)
(* Properties of the extractors                                            *)
(***************************************************************************)
\* the context the calls of a log lead to: the argument of the last call if it
\* had one, else the marker of its chunk, else what the calls before it left
RECURSIVE ExpectedContext(_)
ExpectedContext(log) ==
    IF log = <<>> THEN Str["Unknown"]
    ELSE LET last == log[Len(log)]
         IN  IF last.arg # NoneVal THEN last.arg
             ELSE IF last.marker # NoneVal THEN last.marker
             ELSE ExpectedContext(SubSeq(log, 1, Len(log) - 1))

C8_ConfidenceInRange ==
    /\ \A i \in 1..Len(returned) :
          returned[i].confidence >= 0 /\ returned[i].confidence <= 10
    /\ \A i \in 1..Len(candidates) :
          candidates[i].confidence >= 0 /\ candidates[i].confidence <= 10

\* A candidate whose penalties add up to more than 1.0 and whose confidence
\* was clamped to 0.0.
C8_Witness ==
    /\ ex_kind = "nlp"
    /\ \E i \in 1..Len(candidates) :
          /\ RawConfidence(candidates[i].source_text) < 0
          /\ candidates[i].confidence = 0

\* C9: no returned claim has a confidence below MIN_CLAIM_CONFIDENCE; a
\* candidate yields a claim exactly when its confidence is at or above the
\* threshold, so one below it yields none and one with a single uncertainty
\* word (1.0 - 0.3, the threshold itself) is kept.
C9_ThresholdEnforced ==
    /\ \A i \in 1..Len(returned) : returned[i].confidence >= MIN_CLAIM_CONFIDENCE
    /\ \A i \in 1..Len(candidates) :
          candidates[i].built <=> candidates[i].confidence >= MIN_CLAIM_CONFIDENCE
    /\ Len(returned) = Len(SelectSeq(candidates, LAMBDA c : c.built))
    /\ ex_kind = "nlp" =>
          \A i \in 1..Len(candidates) :
             ( /\ MarkersIn(uncertainty_markers, candidates[i].source_text) = 1
               /\ MarkersIn(metaphor_markers, candidates[i].source_text) = 0
               /\ ~EndsWith(candidates[i].source_text, <<"?">>) )
             => candidates[i].confidence = MIN_CLAIM_CONFIDENCE /\ candidates[i].built

\* The spaCy extractor returned a claim for a sentence with one uncertainty
\* word, at confidence 0.7.
C9_Witness ==
    /\ ex_kind = "nlp"
    /\ returned # <<>>
    /\ returned[1].confidence = MIN_CLAIM_CONFIDENCE
    /\ MarkersIn(uncertainty_markers, returned[1].source_text) = 1

(***************************************************************************)
(* SimplifiedContradictionDetector (reasoning.py)                          *)
(***************************************************************************)
opposing_pairs ==
    << <<Str["alive"], Str["dead"]>>,
       <<Str["rich"], Str["poor"]>>,
       <<Str["married"], Str["single"]>>,
       <<Str["present"], Str["absent"]>>,
       <<Str["young"], Str["old"]>> >>

\* Mutant of _are_contradictory: the pairs are tested in table order only.
_are_contradictory_one_way(value1, value2) ==
    LET v1 == Strip(Lower(value1))
        v2 == Strip(Lower(value2))
    IN  IF v1 = v2 THEN FALSE
        ELSE \E k \in 1..Len(opposing_pairs) :
                IsSubstring(v1, opposing_pairs[k][1])
                /\ IsSubstring(v2, opposing_pairs[k][2])

\* _are_contradictory(value1, value2); "v in pair[0]" is the substring test
_are_contradictory(value1, value2) ==
    LET v1 == Strip(Lower(value1))
        v2 == Strip(Lower(value2))
    IN  IF v1 = v2 THEN FALSE
        ELSE \E k \in 1..Len(opposing_pairs) :
                \/ IsSubstring(v1, opposing_pairs[k][1])
                   /\ IsSubstring(v2, opposing_pairs[k][2])
                \/ IsSubstring(v1, opposing_pairs[k][2])
                   /\ IsSubstring(v2, opposing_pairs[k][1])

\* key = (claim.entity.lower(), claim.attribute.lower())
GroupKey(claim) == <<Lower(claim.entity), Lower(claim.attribute)>>

\* the keys of entity_attr_map in insertion order
RECURSIVE GroupKeys(_, _, _)
GroupKeys(claims, i, keys) ==
    IF i > Len(claims) THEN keys
    ELSE IF \E k \in 1..Len(keys) : keys[k] = GroupKey(claims[i])
         THEN GroupKeys(claims, i + 1, keys)
         ELSE GroupKeys(claims, i + 1, Append(keys, GroupKey(claims[i])))

\* Mutant of GroupClaims: only the claims that follow the first one of the key
\* without interruption are taken.
GroupClaimsAdjacent(claims, key) ==
    LET first == CHOOSE i \in 1..Len(claims) :
                    /\ GroupKey(claims[i]) = key
                    /\ \A j \in 1..(i - 1) : GroupKey(claims[j]) # key
        run   == {i \in first..Len(claims) :
                    \A j \in first..i : GroupKey(claims[j]) = key}
    IN  SubSeq(claims, first, first + Cardinality(run) - 1)

\* entity_attr_map[key]
GroupClaims(claims, key) == SelectSeq(claims, LAMBDA c : GroupKey(c) = key)

\* Mutant of ValueKey: the value is taken as stored.
ValueKeyRaw(claim) == claim.value

\* value_key = claim.value.lower().strip()
ValueKey(claim) == Strip(Lower(claim.value))

\* the loop that fills values_seen: the first claim of each value_key, in
\* insertion order
RECURSIVE ValuesSeen(_, _, _)
ValuesSeen(claim_list, i, items) ==
    IF i > Len(claim_list) THEN items
    ELSE IF \E k \in 1..Len(items) : items[k].value = ValueKey(claim_list[i])
         THEN ValuesSeen(claim_list, i + 1, items)
         ELSE ValuesSeen(claim_list, i + 1,
                         Append(items, [value |-> ValueKey(claim_list[i]),
                                        claim |-> claim_list[i]]))

\* Mutant of ValueItems: every claim of the group is kept, repeated values too.
ValueItemsAll(claim_list) ==
    [k \in 1..Len(claim_list) |->
        [value |-> ValueKey(claim_list[k]), claim |-> claim_list[k]]]

\* value_items = list(values_seen.items())
ValueItems(claim_list) == ValuesSeen(claim_list, 1, <<>>)

ContradictionResult(entity, attribute, values, locations, delta, verdict, source_texts, confidence_scores) ==
    [entity |-> entity, attribute |-> attribute, values |-> values,
     locations |-> locations, delta |-> delta, verdict |-> verdict,
     source_texts |-> source_texts, confidence_scores |-> confidence_scores]

\* the two loops over value_items from (i, j) on, for the group of a key
RECURSIVE PairResults(_, _, _, _)
PairResults(key, value_items, i, j) ==
    IF i > Len(value_items) THEN <<>>
    ELSE IF j > Len(value_items) THEN PairResults(key, value_items, i + 1, i + 2)
    ELSE LET claim1 == value_items[i].claim
             claim2 == value_items[j].claim
             rest   == PairResults(key, value_items, i, j + 1)
         IN  IF _are_contradictory(value_items[i].value, value_items[j].value)
             THEN <<ContradictionResult(claim1.entity, key[2],
                        <<claim1.value, claim2.value>>,
                        <<claim1.time_context, claim2.time_context>>,
                        RULE_DELTA, Str["CONTRADICTION"],
                        <<claim1.source_text, claim2.source_text>>,
                        <<claim1.confidence, claim2.confidence>>)>> \o rest
             ELSE rest

\* "for (entity, attribute), claim_list in entity_attr_map.items()" from the
\* k-th key on; groups of fewer than two claims are skipped
RECURSIVE GroupResults(_, _, _)
GroupResults(claims, keys, k) ==
    IF k > Len(keys) THEN <<>>
    ELSE LET claim_list == GroupClaims(claims, keys[k])
         IN  (IF Len(claim_list) < 2 THEN <<>>
              ELSE PairResults(keys[k], ValueItems(claim_list), 1, 2))
             \o GroupResults(claims, keys, k + 1)

\* SimplifiedContradictionDetector.detect(claims)
detect(claims) == GroupResults(claims, GroupKeys(claims, 1, <<>>), 1)

(***************************************************************************)
(* One detect call on a list of claims                                     *)
(***************************************************************************)
DetectEntities == {Str["Edmund"], Str["king"]}
DetectAttributes == {Str["alive"], Str["wealth"]}
DetectValues == {Str["alive"], Str["dead"], Title(Str["dead"]), Str["rich"]}

\* str(n) of a one-digit number
DigitChar(n) == <<"0", "1", "2", "3", "4", "5", "6", "7", "8", "9">>[n + 1]

\* the claims of a document in the order of extraction: the i-th one comes
\* from chunk i - 1 and lies in the context "Ch" i
ClaimList(facts) ==
    [i \in 1..Len(facts) |->
        Claim(facts[i][1], facts[i][2], facts[i][3], <<"C", "h", DigitChar(i)>>,
              JoinSp(<<facts[i][1], Str["was"], facts[i][3]>>), i - 1,
              SIMPLE_CONFIDENCE)]

InitDetect ==
    /\ OutsideDetectIdle
    /\ \E n \in 0..MaxClaims :
          \E facts \in [1..n -> DetectEntities \X DetectAttributes \X DetectValues] :
             det_claims = ClaimList(facts)
    /\ det_kind = "rule"
    /\ det_st = "ready"
    /\ contradictions = <<>>
    /\ det_calls = 0
    /\ det_returns = <<>>
    /\ NliIdle

\* contradictions = detector.detect(claims)
Detect ==
    /\ det_kind = "rule"
    /\ det_st \in {"ready", "done"}
    /\ det_calls < MaxDetectCalls
    /\ contradictions' = detect(det_claims)
    /\ det_returns' = Append(det_returns, detect(det_claims))
    /\ det_calls' = det_calls + 1
    /\ det_st' = "done"
    /\ UNCHANGED <<det_kind, det_claims>>
    /\ UNCHANGED nli_vars
    /\ UNCHANGED outside_detect

NextDetect == Detect

SpecDetect == InitDetect /\ [][NextDetect]_vars

(***************************************************************************)
(* Properties of the rule-based detector                                   *)
(***************************************************************************)
\* two normalized values are the two members of a pair of the table
Opposing(a, b) ==
    \E k \in 1..Len(opposing_pairs) :
        {a, b} = {opposing_pairs[k][1], opposing_pairs[k][2]}

\* the position in the input of the first claim of a group with a normalized value
FirstWith(key, value) ==
    CHOOSE i \in 1..Len(det_claims) :
        /\ GroupKey(det_claims[i]) = key /\ ValueKey(det_claims[i]) = value
        /\ \A j \in 1..(i - 1) :
              ~(GroupKey(det_claims[j]) = key /\ ValueKey(det_claims[j]) = value)

\* the verdicts returned for a group and an unordered pair of normalized values
VerdictsFor(key, a, b) ==
    { n \in 1..Len(contradictions) :
        /\ Lower(contradictions[n].entity) = key[1]
        /\ contradictions[n].attribute = key[2]
        /\ { Strip(Lower(contradictions[n].values[1])),
             Strip(Lower(contradictions[n].values[2])) } = {a, b} }

\* C10: after detect, within one (entity, attribute) group every unordered pair
\* of distinct values that is opposing under the table has exactly one verdict,
\* with delta 1.0, verdict "CONTRADICTION" and the values of the first claims
\* that carry them, in input order; no verdict pairs two equal normalized
\* values; and two claims about the same entity and attribute with the values
\* "alive" and "dead" (or "poor" and "rich") give exactly one verdict.
C10_OpposingPairOneVerdict ==
    det_st = "done" =>
       /\ \A i, j \in 1..Len(det_claims) :
             ( /\ i < j
               /\ GroupKey(det_claims[i]) = GroupKey(det_claims[j])
               /\ Opposing(ValueKey(det_claims[i]), ValueKey(det_claims[j])) )
             => LET key == GroupKey(det_claims[i])
                    a   == ValueKey(det_claims[i])
                    b   == ValueKey(det_claims[j])
                    fa  == FirstWith(key, a)
                    fb  == FirstWith(key, b)
                    lo  == IF fa < fb THEN fa ELSE fb
                    hi  == IF fa < fb THEN fb ELSE fa
                IN  /\ Cardinality(VerdictsFor(key, a, b)) = 1
                    /\ \A n \in VerdictsFor(key, a, b) :
                          /\ contradictions[n].delta = RULE_DELTA
                          /\ contradictions[n].verdict = Str["CONTRADICTION"]
                          /\ contradictions[n].values =
                                <<det_claims[lo].value, det_claims[hi].value>>
                          /\ contradictions[n].locations =
                                <<det_claims[lo].time_context,
                                  det_claims[hi].time_context>>
       /\ \A n \in 1..Len(contradictions) :
             Strip(Lower(contradictions[n].values[1]))
                # Strip(Lower(contradictions[n].values[2]))
       /\ ( /\ Len(det_claims) = 2
            /\ GroupKey(det_claims[1]) = GroupKey(det_claims[2])
            /\ Opposing(det_claims[1].value, det_claims[2].value) )
          => /\ Len(contradictions) = 1
             /\ contradictions[1].values = <<det_claims[1].value, det_claims[2].value>>

\* Three claims of one group, "dead", "alive" and again "Dead": detect returned
\* one verdict, for the first two.
C10_Witness ==
    /\ det_st = "done"
    /\ Len(det_claims) = 3
    /\ \A i \in 1..3 : GroupKey(det_claims[i]) = GroupKey(det_claims[1])
    /\ det_claims[1].value = Str["dead"]
    /\ det_claims[2].value = Str["alive"]
    /\ det_claims[3].value = Title(Str["dead"])
    /\ Len(contradictions) = 1
    /\ contradictions[1].values = <<Str["dead"], Str["alive"]>>

(***************************************************************************)
(* _are_contradictory applied to a pair of value strings, in both orders   *)
(***************************************************************************)
ValueAlphabet == {"a", "d", "D", " "}

\* every string of at most MaxValueLen characters of the alphabet, and the
\* words of the table
ValueStrings ==
    UNION { [1..n -> ValueAlphabet] : n \in 0..MaxValueLen }
    \cup UNION { {opposing_pairs[k][1], opposing_pairs[k][2]} :
                 k \in 1..Len(opposing_pairs) }

InitOppose ==
    /\ OutsideFnIdle
    /\ fn_in \in ValueStrings \X ValueStrings
    /\ fn_out = [args \in {} |-> FALSE]

\* self._are_contradictory(value1, value2)
CallOpposeForward ==
    /\ fn_in \notin DOMAIN fn_out
    /\ fn_out' = [args \in DOMAIN fn_out \cup {fn_in} |->
                     IF args = fn_in THEN _are_contradictory(fn_in[1], fn_in[2])
                     ELSE fn_out[args]]
    /\ UNCHANGED fn_in
    /\ UNCHANGED outside_fn

\* self._are_contradictory(value2, value1)
CallOpposeBackward ==
    /\ <<fn_in[2], fn_in[1]>> \notin DOMAIN fn_out
    /\ fn_out' = [args \in DOMAIN fn_out \cup {<<fn_in[2], fn_in[1]>>} |->
                     IF args = <<fn_in[2], fn_in[1]>>
                     THEN _are_contradictory(fn_in[2], fn_in[1])
                     ELSE fn_out[args]]
    /\ UNCHANGED fn_in
    /\ UNCHANGED outside_fn

NextOppose == CallOpposeForward \/ CallOpposeBackward

SpecOppose == InitOppose /\ [][NextOppose]_vars

\* C11: the rule-based opposition test is symmetric: once _are_contradictory
\* has been applied to (a, b) and to (b, a), the two results are equal.
C11_OppositionSymmetric ==
    \A args \in DOMAIN fn_out :
        <<args[2], args[1]>> \in DOMAIN fn_out
            => fn_out[args] = fn_out[<<args[2], args[1]>>]

\* Both orders of two different values were tested and both calls said
\* "contradictory", the first value being a word of the second column.
C11_Witness ==
    /\ fn_in[1] # fn_in[2]
    /\ fn_in \in DOMAIN fn_out /\ <<fn_in[2], fn_in[1]>> \in DOMAIN fn_out
    /\ fn_out[fn_in]
    /\ fn_in[1] = Str["dead"]

(***************************************************************************)
(* ContradictionDetector: the two-stage detector                           *)
(***************************************************************************)
\* Mutant of NormalizedEntity: every claim falls into one group.
NormalizedEntityNone(claim) == <<>>

\* normalized_entity = claim.entity.lower().strip()
NormalizedEntity(claim) == Strip(Lower(claim.entity))

\* the keys of entity_map in insertion order
RECURSIVE EntityKeys(_, _, _)
EntityKeys(claims, i, keys) ==
    IF i > Len(claims) THEN keys
    ELSE IF \E k \in 1..Len(keys) : keys[k] = NormalizedEntity(claims[i])
         THEN EntityKeys(claims, i + 1, keys)
         ELSE EntityKeys(claims, i + 1, Append(keys, NormalizedEntity(claims[i])))

\* entity_map[key] from the i-th claim on, as positions in the input
RECURSIVE PositionsFrom(_, _, _)
PositionsFrom(claims, i, key) ==
    IF i > Len(claims) THEN <<>>
    ELSE (IF NormalizedEntity(claims[i]) = key THEN <<i>> ELSE <<>>)
         \o PositionsFrom(claims, i + 1, key)

\* Mutant of _group_by_entity: the groups come out last key first.
_group_by_entity_last_first(claims) ==
    LET keys == EntityKeys(claims, 1, <<>>)
    IN  [k \in 1..Len(keys) |-> PositionsFrom(claims, 1, keys[Len(keys) + 1 - k])]

\* self._group_by_entity(claims): the groups in insertion order of their keys,
\* each one the positions of its claims in the input, in input order
_group_by_entity(claims) ==
    LET keys == EntityKeys(claims, 1, <<>>)
    IN  [k \in 1..Len(keys) |-> PositionsFrom(claims, 1, keys[k])]

\* self._claim_to_text(claim)
_claim_to_text(claim) ==
    LET text == claim.entity \o <<" ">> \o claim.attribute \o <<" ">> \o claim.value
    IN  IF claim.time_context # Str["Unknown"]
        THEN text \o <<" ", "i", "n", " ">> \o claim.time_context
        ELSE text

\* the embeddings the provider may return for a text
Vectors == {<<0, 0>>, <<1, 0>>, <<0, 1>>, <<3, 4>>}

\* the score triples [contradiction, entailment, neutral] the NLI provider may
\* return for a pair of texts, in tenths
ScoreAnswers == {<<8, 1, 1>>, <<6, 1, 3>>, <<5, 2, 3>>}

\* np.dot(vec1, vec2)
Dot(vec1, vec2) == vec1[1] * vec2[1] + vec1[2] * vec2[2]

\* Mutant of SimilarEnough: the comparison with the threshold is strict.
SimilarEnoughStrict(vec1, vec2) ==
    /\ Dot(vec1, vec1) # 0
    /\ Dot(vec2, vec2) # 0
    /\ Dot(vec1, vec2) > 0
    /\ 100 * Dot(vec1, vec2) * Dot(vec1, vec2)
          > SEMANTIC_SIMILARITY_THRESHOLD * SEMANTIC_SIMILARITY_THRESHOLD
             * Dot(vec1, vec1) * Dot(vec2, vec2)

\* self._cosine_similarity(vec1, vec2) >= self.similarity_threshold: the
\* similarity is 0.0 when a norm is 0, else dot / (norm1 * norm2); with the
\* threshold positive, the comparison is made on the squares
SimilarEnough(vec1, vec2) ==
    /\ Dot(vec1, vec1) # 0
    /\ Dot(vec2, vec2) # 0
    /\ Dot(vec1, vec2) > 0
    /\ 100 * Dot(vec1, vec2) * Dot(vec1, vec2)
          >= SEMANTIC_SIMILARITY_THRESHOLD * SEMANTIC_SIMILARITY_THRESHOLD
             * Dot(vec1, vec1) * Dot(vec2, vec2)

\* the two loops of _semantic_filter from (i, j) on: the candidate pairs of a
\* group, as pairs of positions in the input
RECURSIVE CandidatePairs(_, _, _, _)
CandidatePairs(group, embeddings, i, j) ==
    IF i > Len(group) THEN <<>>
    ELSE IF j > Len(group) THEN CandidatePairs(group, embeddings, i + 1, i + 2)
    ELSE (IF SimilarEnough(embeddings[i], embeddings[j])
          THEN <<<<group[i], group[j]>>>> ELSE <<>>)
         \o CandidatePairs(group, embeddings, i, j + 1)

\* self._semantic_filter(entity_claim_list), given the provider's embeddings
_semantic_filter(group, embeddings) ==
    IF Len(group) < 2 THEN <<>> ELSE CandidatePairs(group, embeddings, 1, 2)

\* Mutant of AtLeastThreshold: the comparison is strict.
AboveThreshold(delta) == delta > CONTRADICTION_DELTA_THRESHOLD

\* delta >= self.threshold
AtLeastThreshold(delta) == delta >= CONTRADICTION_DELTA_THRESHOLD

\* the result that _logic_juror builds for a pair
JurorResult(claim1, claim2, delta) ==
    ContradictionResult(claim1.entity, claim1.attribute,
        <<claim1.value, claim2.value>>,
        <<claim1.time_context, claim2.time_context>>,
        delta, Str["CONTRADICTION"],
        <<claim1.source_text, claim2.source_text>>,
        <<claim1.confidence, claim2.confidence>>)

\* the body of the loop of _logic_juror for one pair, given the provider's
\* scores: the local list contradictions after it
JurorStep(found, claim1, claim2, scores) ==
    LET delta == scores[1] - scores[2]
    IN  IF AtLeastThreshold(delta)
        THEN Append(found, JurorResult(claim1, claim2, delta))
        ELSE found

\* the first group from the g-th on that has at least two claims, 0 if none:
\* "if len(entity_claim_list) < 2: continue"
RECURSIVE NextGroup(_, _)
NextGroup(groups, g) ==
    IF g > Len(groups) THEN 0
    ELSE IF Len(groups[g]) < 2 THEN NextGroup(groups, g + 1)
    ELSE g

(***************************************************************************)
(* Constructing a detector and calling detect on a list of claims          *)
(***************************************************************************)
\* the claims of two documents, as (entity, attribute, value): three claims
\* about Edmund, whose entity differs in case and in a trailing space, and
\* two about the king; the attribute of the first is capitalized
PairDocuments ==
    LET e1 == <<Str["Edmund"], Title(Str["alive"]), Str["alive"]>>
        e2 == <<Str["Edmund"], Str["alive"], Str["dead"]>>
        e3 == <<Lower(Str["Edmund"]) \o <<" ">>, Str["alive"], Str["dead"]>>
        k1 == <<Str["king"], Str["alive"], Str["alive"]>>
        k2 == <<Title(Str["king"]), Str["alive"], Str["dead"]>>
    IN  {<<e1, k1, e2, k2, e3>>, <<k2, e3, k1, e1>>}

\* the facts of a document at a set of positions, in the document's order
RECURSIVE SubList(_, _, _)
SubList(doc, keep, i) ==
    IF i > Len(doc) THEN <<>>
    ELSE (IF i \in keep THEN <<doc[i]>> ELSE <<>>) \o SubList(doc, keep, i + 1)

\* a detector is about to be constructed and called with any selection of the
\* claims of a document
InitDetectors ==
    /\ OutsideDetectIdle
    /\ \E doc \in PairDocuments :
          \E keep \in SUBSET (1..Len(doc)) :
             det_claims = ClaimList(SubList(doc, keep, 1))
    /\ det_kind = "none"
    /\ det_st = "new"
    /\ contradictions = <<>>
    /\ det_calls = 0
    /\ det_returns = <<>>
    /\ NliIdle

\* detector = SimplifiedContradictionDetector()
ConstructSimplified ==
    /\ det_st = "new"
    /\ det_kind' = "rule"
    /\ det_st' = "ready"
    /\ UNCHANGED <<det_claims, contradictions, det_calls, det_returns>>
    /\ UNCHANGED nli_vars
    /\ UNCHANGED outside_detect

\* _init_models: the semantic model is loaded first, then the NLI model; a
\* failure to load is logged and raised again
_init_models(semantic_ok, nli_ok) ==
    IF ~semantic_ok THEN <<[model |-> "semantic", loaded |-> FALSE]>>
    ELSE <<[model |-> "semantic", loaded |-> TRUE],
           [model |-> "nli", loaded |-> nli_ok]>>

\* Mutant of Constructed: a failure to load is swallowed and the detector is
\* handed out.
ConstructedAnyway(semantic_ok, nli_ok) == [kind |-> "nli", st |-> "ready"]

\* the outcome of __init__: the exception of _init_models leaves the
\* constructor, so the object exists only if both models loaded
Constructed(semantic_ok, nli_ok) ==
    IF semantic_ok /\ nli_ok THEN [kind |-> "nli", st |-> "ready"]
    ELSE [kind |-> "none", st |-> "init_raised"]

\* detector = ContradictionDetector()
ConstructDetector ==
    /\ det_st = "new"
    /\ \E semantic_ok, nli_ok \in BOOLEAN :
          /\ load_log' = _init_models(semantic_ok, nli_ok)
          /\ det_kind' = Constructed(semantic_ok, nli_ok).kind
          /\ det_st' = Constructed(semantic_ok, nli_ok).st
    /\ UNCHANGED <<det_claims, contradictions, det_calls, det_returns>>
    /\ UNCHANGED <<all_contradictions, nd_group, nd_pairs, nd_found,
                   encode_log, score_log, embed_memo, score_memo>>
    /\ UNCHANGED outside_detect

\* "return all_contradictions"
ReturnFromDetect(all) ==
    /\ det_st' = "done"
    /\ contradictions' = all
    /\ det_returns' = Append(det_returns, all)
    /\ all_contradictions' = <<>>
    /\ nd_group' = 0
    /\ nd_pairs' = <<>>
    /\ nd_found' = <<>>

\* the loop over entity_claims.items() from the g-th group on, up to the next
\* call of a provider or the return
ContinueDetect(all, g) ==
    LET next == NextGroup(_group_by_entity(det_claims), g)
    IN  IF next = 0 THEN ReturnFromDetect(all)
        ELSE /\ det_st' = "encoding"
             /\ nd_group' = next
             /\ all_contradictions' = all
             /\ nd_pairs' = <<>>
             /\ nd_found' = <<>>
             /\ UNCHANGED <<contradictions, det_returns>>

\* Mutant of RaiseFromDetect: the exception is swallowed and the verdicts
\* collected so far are returned.
RaiseSwallowed == ReturnFromDetect(all_contradictions \o nd_found)

\* an exception of a provider leaves detect: nothing is returned
RaiseFromDetect ==
    /\ det_st' = "raised"
    /\ all_contradictions' = <<>>
    /\ nd_group' = 0
    /\ nd_pairs' = <<>>
    /\ nd_found' = <<>>
    /\ UNCHANGED <<contradictions, det_returns>>

\* Mutant of NewList: the list of the previous call is kept, as if it were an
\* attribute of the detector.
ListOfLastCall == contradictions

\* all_contradictions = []
NewList == <<>>

\* ContradictionDetector.detect(claims), up to its first call of a provider;
\* the caller calls again only after a call that returned
DetectBegin ==
    /\ det_kind = "nli"
    /\ det_st \in {"ready", "done"}
    /\ det_calls < MaxDetectCalls
    /\ det_calls' = det_calls + 1
    /\ ContinueDetect(NewList, 1)
    /\ UNCHANGED <<det_kind, det_claims>>
    /\ UNCHANGED <<load_log, encode_log, score_log, embed_memo, score_memo>>
    /\ UNCHANGED outside_detect

\* the texts of the group being processed
GroupTexts(group) == [k \in 1..Len(group) |-> _claim_to_text(det_claims[group[k]])]

\* the provider is a function of the text: it answers a text it has seen as
\* it did before
EmbeddingsFor(texts) ==
    { embeddings \in [1..Len(texts) -> Vectors] :
        /\ \A k \in 1..Len(texts) :
              texts[k] \in DOMAIN embed_memo => embeddings[k] = embed_memo[texts[k]]
        /\ \A k, l \in 1..Len(texts) :
              texts[k] = texts[l] => embeddings[k] = embeddings[l] }

\* self.semantic_model.encode(claim_texts) returns: _semantic_filter finishes
\* and detect goes on to _logic_juror or to the next group
EncodeReturns ==
    /\ det_st = "encoding"
    /\ \E group \in {_group_by_entity(det_claims)[nd_group]} :
       \E texts \in {GroupTexts(group)} :
       \E embeddings \in EmbeddingsFor(texts) :
       \E candidate_pairs \in {_semantic_filter(group, embeddings)} :
          /\ encode_log' = Append(encode_log,
                [call |-> det_calls, claims |-> group, returned |-> TRUE,
                 embeddings |-> embeddings])
          /\ embed_memo' =
                [t \in DOMAIN embed_memo \cup {texts[k] : k \in 1..Len(texts)} |->
                    IF t \in DOMAIN embed_memo THEN embed_memo[t]
                    ELSE embeddings[CHOOSE k \in 1..Len(texts) : texts[k] = t]]
          /\ IF candidate_pairs = <<>>
             THEN ContinueDetect(all_contradictions, nd_group + 1)
             ELSE /\ det_st' = "scoring"
                  /\ nd_pairs' = candidate_pairs
                  /\ nd_found' = <<>>
                  /\ UNCHANGED <<all_contradictions, nd_group, contradictions,
                                 det_returns>>
    /\ UNCHANGED <<det_kind, det_claims, det_calls>>
    /\ UNCHANGED <<load_log, score_log, score_memo>>
    /\ UNCHANGED outside_detect

\* self.semantic_model.encode(claim_texts) raises
EncodeRaises ==
    /\ det_st = "encoding"
    /\ encode_log' = Append(encode_log,
          [call |-> det_calls, claims |-> _group_by_entity(det_claims)[nd_group],
           returned |-> FALSE, embeddings |-> <<>>])
    /\ RaiseFromDetect
    /\ UNCHANGED <<det_kind, det_claims, det_calls>>
    /\ UNCHANGED <<load_log, score_log, embed_memo, score_memo>>
    /\ UNCHANGED outside_detect

\* the provider is a function of the pair of texts
ScoresFor(texts) ==
    IF texts \in DOMAIN score_memo THEN {score_memo[texts]} ELSE ScoreAnswers

\* self.nli_model.predict([(premise, hypothesis)])[0] returns for the next
\* pair: the body of the loop of _logic_juror, and after the last pair the
\* return of _logic_juror and all_contradictions.extend(contradictions)
PredictReturns ==
    /\ det_st = "scoring"
    /\ \E pair \in {Head(nd_pairs)} :
       \E texts \in {<<_claim_to_text(det_claims[pair[1]]),
                       _claim_to_text(det_claims[pair[2]])>>} :
       \E scores \in ScoresFor(texts) :
       \E found \in {JurorStep(nd_found, det_claims[pair[1]], det_claims[pair[2]],
                               scores)} :
          /\ score_log' = Append(score_log,
                [call |-> det_calls, pair |-> pair, returned |-> TRUE,
                 scores |-> scores])
          /\ score_memo' =
                [t \in DOMAIN score_memo \cup {texts} |->
                    IF t \in DOMAIN score_memo THEN score_memo[t] ELSE scores]
          /\ IF Tail(nd_pairs) = <<>>
             THEN ContinueDetect(all_contradictions \o found, nd_group + 1)
             ELSE /\ nd_pairs' = Tail(nd_pairs)
                  /\ nd_found' = found
                  /\ UNCHANGED <<det_st, all_contradictions, nd_group,
                                 contradictions, det_returns>>
    /\ UNCHANGED <<det_kind, det_claims, det_calls>>
    /\ UNCHANGED <<load_log, encode_log, embed_memo>>
    /\ UNCHANGED outside_detect

\* self.nli_model.predict([(premise, hypothesis)]) raises
PredictRaises ==
    /\ det_st = "scoring"
    /\ score_log' = Append(score_log,
          [call |-> det_calls, pair |-> Head(nd_pairs), returned |-> FALSE,
           scores |-> <<>>])
    /\ RaiseFromDetect
    /\ UNCHANGED <<det_kind, det_claims, det_calls>>
    /\ UNCHANGED <<load_log, encode_log, embed_memo, score_memo>>
    /\ UNCHANGED outside_detect

NextDetectors ==
    \/ ConstructSimplified
    \/ ConstructDetector
    \/ Detect
    \/ DetectBegin
    \/ EncodeReturns
    \/ EncodeRaises
    \/ PredictReturns
    \/ PredictRaises

SpecDetectors == InitDetectors /\ [][NextDetectors]_vars

(***************************************************************************)
(* Properties of the two detectors                                         *)
(***************************************************************************)
\* the number of input claims whose entity, lowercased and trimmed, is the
\* same as that of a given entity
ClaimsAbout(entity) ==
    Cardinality({ i \in 1..Len(det_claims) :
                    Strip(Lower(det_claims[i].entity)) = Strip(Lower(entity)) })

\* C12: for both detectors, an entity with fewer than 2 claims in the input
\* contributes no verdict: every verdict of every returned list is about an
\* entity that has at least 2 claims, and the embedding provider is only ever
\* asked about groups of at least 2 claims.  Detect on the empty list returns
\* the empty list, does not raise and calls neither provider.
C12_FewClaimsNoVerdict ==
    /\ \A c \in 1..Len(det_returns) :
          \A n \in 1..Len(det_returns[c]) :
             ClaimsAbout(det_returns[c][n].entity) >= 2
    /\ \A e \in 1..Len(encode_log) : Len(encode_log[e].claims) >= 2
    /\ det_claims = <<>> =>
          /\ det_st \in {"new", "init_raised", "ready", "done"}
          /\ Len(det_returns) = det_calls
          /\ \A c \in 1..Len(det_returns) : det_returns[c] = <<>>
          /\ encode_log = <<>>
          /\ score_log = <<>>

\* The two-stage detector returned a verdict about Edmund from a list that
\* also holds the only claim about the king.
C12_Witness ==
    /\ det_kind = "nli"
    /\ det_st = "done"
    /\ Len(contradictions) >= 1
    /\ \E i \in 1..Len(det_claims) :
          /\ ClaimsAbout(det_claims[i].entity) = 1
          /\ \A n \in 1..Len(contradictions) :
                Strip(Lower(contradictions[n].entity))
                   # Strip(Lower(det_claims[i].entity))

\* a verdict carries the fields of the claims at two positions of the input,
\* the left one first
BuiltFrom(v, left, right) ==
    /\ v.entity = det_claims[left].entity
    /\ v.attribute = det_claims[left].attribute
    /\ v.values = <<det_claims[left].value, det_claims[right].value>>
    /\ v.locations = <<det_claims[left].time_context, det_claims[right].time_context>>
    /\ v.source_texts = <<det_claims[left].source_text, det_claims[right].source_text>>
    /\ v.confidence_scores = <<det_claims[left].confidence, det_claims[right].confidence>>

\* C13: every verdict returned by either detector is built from two claims of
\* the input, left and right: its values, locations, source_texts and
\* confidence_scores are the two claims' fields in that order, and its entity
\* and attribute are the left claim's entity and attribute as stored.
C13_VerdictFromPair ==
    \A c \in 1..Len(det_returns) :
       \A n \in 1..Len(det_returns[c]) :
          \E left, right \in 1..Len(det_claims) :
             left # right /\ BuiltFrom(det_returns[c][n], left, right)

\* the scorings of the c-th detect call whose delta reaches the threshold, in
\* the order they were made
Reaching(c) ==
    SelectSeq(score_log,
              LAMBDA e : /\ e.call = c
                         /\ e.returned
                         /\ e.scores[1] - e.scores[2] >= CONTRADICTION_DELTA_THRESHOLD)

\* C14: in ContradictionDetector the delta of a candidate pair is the scorer's
\* contradiction score minus its entailment score, and a verdict carrying that
\* delta is emitted if and only if delta >= the contradiction threshold (0.5,
\* inclusive): the verdicts a call returns are, in order, those of the scored
\* pairs whose delta reaches the threshold, each with verdict "CONTRADICTION";
\* scores (0.8, 0.1, 0.1) give a verdict of delta 0.7, scores (0.5, 0.2, 0.3)
\* give none, and no result exists for a pair below the threshold.
C14_DeltaThreshold ==
    det_kind = "nli" =>
       /\ \A n \in 1..Len(nd_found) :
             nd_found[n].delta >= CONTRADICTION_DELTA_THRESHOLD
       /\ \A n \in 1..Len(all_contradictions) :
             all_contradictions[n].delta >= CONTRADICTION_DELTA_THRESHOLD
       /\ \A c \in 1..Len(det_returns) :
          /\ Len(det_returns[c]) = Len(Reaching(c))
          /\ \A n \in 1..Len(det_returns[c]) :
                /\ det_returns[c][n].delta
                      = Reaching(c)[n].scores[1] - Reaching(c)[n].scores[2]
                /\ det_returns[c][n].delta >= CONTRADICTION_DELTA_THRESHOLD
                /\ det_returns[c][n].verdict = Str["CONTRADICTION"]
                /\ BuiltFrom(det_returns[c][n], Reaching(c)[n].pair[1],
                             Reaching(c)[n].pair[2])
                /\ Reaching(c)[n].scores = <<8, 1, 1>> => det_returns[c][n].delta = 7
                /\ Reaching(c)[n].scores # <<5, 2, 3>>

\* One call scored three pairs with (0.8, 0.1, 0.1), (0.5, 0.2, 0.3) and
\* (0.6, 0.1, 0.3) and returned two verdicts, of delta 0.7 and 0.5.
C14_Witness ==
    /\ det_kind = "nli"
    /\ det_st = "done"
    /\ det_calls = 1
    /\ Len(score_log) = 3
    /\ score_log[1].scores = <<8, 1, 1>>
    /\ score_log[2].scores = <<5, 2, 3>>
    /\ score_log[3].scores = <<6, 1, 3>>
    /\ Len(contradictions) = 2
    /\ contradictions[1].delta = 7
    /\ contradictions[2].delta = CONTRADICTION_DELTA_THRESHOLD

\* the cosine of two vectors is at least 0.6; it is 0.0 when a vector is zero
CosineReaches(v1, v2) ==
    LET dot == v1[1] * v2[1] + v1[2] * v2[2]
        n1  == v1[1] * v1[1] + v1[2] * v1[2]
        n2  == v2[1] * v2[1] + v2[2] * v2[2]
    IN  n1 > 0 /\ n2 > 0 /\ dot > 0 /\ 25 * dot * dot >= 9 * n1 * n2

\* the number of scorings of a pair of positions in the c-th detect call
TimesScored(c, pair) ==
    Cardinality({ s \in 1..Len(score_log) :
                    score_log[s].call = c /\ score_log[s].pair = pair })

\* C15: in ContradictionDetector.detect the entailment scorer is invoked for
\* a pair of claims only if both are in the same group by lowercased, trimmed
\* entity, a group of at least 2 claims, and the cosine of their embeddings is
\* >= 0.6 (inclusive), and never twice for the same pair in one call; once a
\* call has returned, every such pair of every group has been scored exactly
\* once and every group of at least 2 claims was embedded once.
C15_ScoredOnlyIfSimilar ==
    det_kind = "nli" =>
       \A norm \in {[i \in 1..Len(det_claims) |-> Strip(Lower(det_claims[i].entity))]} :
       \A size \in {[i \in 1..Len(det_claims) |->
                       Cardinality({ j \in 1..Len(det_claims) : norm[j] = norm[i] })]} :
       /\ \A s \in 1..Len(score_log) :
             LET i == score_log[s].pair[1]
                 j == score_log[s].pair[2]
             IN  /\ i < j
                 /\ norm[i] = norm[j]
                 /\ size[i] >= 2
                 /\ TimesScored(score_log[s].call, score_log[s].pair) = 1
                 /\ \E e \in 1..Len(encode_log) :
                       /\ encode_log[e].call = score_log[s].call
                       /\ encode_log[e].returned
                       /\ \E k, l \in 1..Len(encode_log[e].claims) :
                             /\ encode_log[e].claims[k] = i
                             /\ encode_log[e].claims[l] = j
                             /\ CosineReaches(encode_log[e].embeddings[k],
                                              encode_log[e].embeddings[l])
       /\ \A c \in 1..Len(det_returns) :
             /\ \A e \in 1..Len(encode_log) :
                   encode_log[e].call = c =>
                      \A k, l \in 1..Len(encode_log[e].claims) :
                         k < l =>
                            TimesScored(c, <<encode_log[e].claims[k],
                                             encode_log[e].claims[l]>>)
                               = IF CosineReaches(encode_log[e].embeddings[k],
                                                  encode_log[e].embeddings[l])
                                 THEN 1 ELSE 0
             /\ \A i \in 1..Len(det_claims) :
                   size[i] >= 2 =>
                      Cardinality({ e \in 1..Len(encode_log) :
                                      /\ encode_log[e].call = c
                                      /\ \E k \in 1..Len(encode_log[e].claims) :
                                            encode_log[e].claims[k] = i }) = 1

\* A call on three claims about Edmund whose embeddings are (1,0), (0,1) and
\* (3,4) has returned: the first two are orthogonal and were not scored, the
\* pair of cosine exactly 0.6 and the pair of cosine 0.8 were scored once.
C15_Witness ==
    /\ det_kind = "nli"
    /\ det_st = "done"
    /\ det_calls = 1
    /\ Len(det_claims) = 3
    /\ Len(encode_log) = 1
    /\ encode_log[1].embeddings = <<<<1, 0>>, <<0, 1>>, <<3, 4>>>>
    /\ Len(score_log) = 2
    /\ score_log[1].pair = <<1, 3>>
    /\ score_log[2].pair = <<2, 3>>

\* the provider calls that raised, as <<log, index>>
FailedCalls ==
    {<<"encode", e>> : e \in {e \in 1..Len(encode_log) : ~encode_log[e].returned}}
    \cup {<<"predict", s>> : s \in {s \in 1..Len(score_log) : ~score_log[s].returned}}

\* C16: if an embedding or entailment provider call fails during
\* ContradictionDetector.detect, the failure leaves detect: the call returns
\* no list, so the verdicts already computed for earlier pairs and earlier
\* entities are dropped, no later pair or group is processed and no provider
\* call is made again after the failure.
C16_ProviderFailurePropagates ==
    det_kind = "nli" =>
       /\ Cardinality(FailedCalls) <= 1
       /\ det_st = "raised" <=> FailedCalls # {}
       /\ \A e \in 1..Len(encode_log) :
             ~encode_log[e].returned =>
                e = Len(encode_log) /\ encode_log[e].call = det_calls
       /\ \A s \in 1..Len(score_log) :
             ~score_log[s].returned =>
                /\ s = Len(score_log) /\ score_log[s].call = det_calls
                /\ \E k, l \in 1..Len(encode_log[Len(encode_log)].claims) :
                      score_log[s].pair = <<encode_log[Len(encode_log)].claims[k],
                                            encode_log[Len(encode_log)].claims[l]>>
       /\ det_st = "raised" =>
             /\ Len(det_returns) = det_calls - 1
             /\ contradictions = IF det_returns = <<>> THEN <<>>
                                 ELSE det_returns[Len(det_returns)]
             /\ all_contradictions = <<>>
             /\ nd_found = <<>>

\* The scorer raised on the pair of claims about the king after a pair of
\* claims about Edmund had given a verdict in the same call: nothing was
\* returned.
C16_Witness ==
    /\ det_kind = "nli"
    /\ det_st = "raised"
    /\ det_calls = 1
    /\ det_returns = <<>>
    /\ contradictions = <<>>
    /\ Len(score_log) = 2
    /\ score_log[1].returned
    /\ score_log[1].scores[1] - score_log[1].scores[2] >= CONTRADICTION_DELTA_THRESHOLD
    /\ Lower(det_claims[score_log[1].pair[1]].entity) = Lower(Str["Edmund"])
    /\ ~score_log[2].returned
    /\ Lower(det_claims[score_log[2].pair[1]].entity) = Str["king"]

\* C17: if the semantic model or the NLI model fails to load, constructing
\* ContradictionDetector raises: no detector object exists, and no detect
\* call, embedding call or scoring call takes place; a detector that exists
\* has loaded both models, so the failure is never deferred to a detect call.
C17_LoadFailureRaisesAtConstruction ==
    /\ (\E m \in 1..Len(load_log) : ~load_log[m].loaded) =>
          /\ det_st = "init_raised"
          /\ det_kind = "none"
          /\ ~load_log[Len(load_log)].loaded
          /\ det_calls = 0
          /\ det_returns = <<>>
          /\ encode_log = <<>>
          /\ score_log = <<>>
    /\ det_kind = "nli" =>
          /\ Len(load_log) = 2
          /\ \A m \in 1..2 : load_log[m].loaded
    /\ det_st = "init_raised" => \E m \in 1..Len(load_log) : ~load_log[m].loaded

\* The semantic model loaded and the NLI model did not: the constructor raised.
C17_Witness ==
    /\ det_st = "init_raised"
    /\ Len(load_log) = 2
    /\ load_log[1].loaded
    /\ load_log[2].model = "nli"
    /\ ~load_log[2].loaded

\* no detect call is in progress
BetweenCalls == det_st \in {"new", "init_raised", "ready", "done", "raised"}

FieldNames ==
    <<<<"e", "n", "t", "i", "t", "y">>,
      <<"a", "t", "t", "r", "i", "b", "u", "t", "e">>,
      <<"v", "a", "l", "u", "e">>,
      <<"t", "i", "m", "e", "_", "c", "o", "n", "t", "e", "x", "t">>,
      <<"s", "o", "u", "r", "c", "e", "_", "t", "e", "x", "t">>,
      <<"c", "h", "u", "n", "k", "_", "i", "d">>,
      <<"c", "o", "n", "f", "i", "d", "e", "n", "c", "e">>>>

\* asdict(self): the fields in declaration order, each value with its type
to_dict(claim) ==
    <<[key |-> FieldNames[1], kind |-> "str", str |-> claim.entity, num |-> 0],
      [key |-> FieldNames[2], kind |-> "str", str |-> claim.attribute, num |-> 0],
      [key |-> FieldNames[3], kind |-> "str", str |-> claim.value, num |-> 0],
      [key |-> FieldNames[4], kind |-> "str", str |-> claim.time_context, num |-> 0],
      [key |-> FieldNames[5], kind |-> "str", str |-> claim.source_text, num |-> 0],
      [key |-> FieldNames[6], kind |-> "int", str |-> <<>>, num |-> claim.chunk_id],
      [key |-> FieldNames[7], kind |-> "float", str |-> <<>>, num |-> claim.confidence]>>

\* the characters outside ASCII that occur, with the four hexadecimal digits
\* of their code point
NonAscii == [c \in {"é"} |-> <<"0", "0", "e", "9">>]

\* Mutant of EscapeChar: a character is written as it is.
EscapeCharRaw(c) == <<c>>

\* json.dumps with ensure_ascii: the text that stands for one character of a
\* string
EscapeChar(c) ==
    IF c = "\"" THEN <<"\\", "\"">>
    ELSE IF c = "\\" THEN <<"\\", "\\">>
    ELSE IF c = "\n" THEN <<"\\", "n">>
    ELSE IF c = "\r" THEN <<"\\", "r">>
    ELSE IF c = "\t" THEN <<"\\", "t">>
    ELSE IF c \in DOMAIN NonAscii THEN <<"\\", "u">> \o NonAscii[c]
    ELSE <<c>>

RECURSIVE EscapeFrom(_, _)
EscapeFrom(s, i) ==
    IF i > Len(s) THEN <<>> ELSE EscapeChar(s[i]) \o EscapeFrom(s, i + 1)

\* json.dumps of a str
JsonString(s) == <<"\"">> \o EscapeFrom(s, 1) \o <<"\"">>

\* json.dumps of a non-negative int
RECURSIVE JsonInt(_)
JsonInt(n) ==
    IF n < 10 THEN <<DigitChar(n)>> ELSE JsonInt(n \div 10) \o <<DigitChar(n % 10)>>

\* json.dumps of a float, float.__repr__: a number of tenths is written with
\* one decimal
JsonFloat(tenths) == JsonInt(tenths \div 10) \o <<".">> \o <<DigitChar(tenths % 10)>>

JsonValue(item) ==
    IF item.kind = "str" THEN JsonString(item.str)
    ELSE IF item.kind = "int" THEN JsonInt(item.num)
    ELSE JsonFloat(item.num)

\* json.dumps of a dict: "key": value, joined by ", " inside braces
RECURSIVE JsonItems(_, _)
JsonItems(items, i) ==
    IF i > Len(items) THEN <<>>
    ELSE (IF i > 1 THEN <<",", " ">> ELSE <<>>)
         \o JsonString(items[i].key) \o <<":", " ">> \o JsonValue(items[i])
         \o JsonItems(items, i + 1)

dumps(items) == <<"{">> \o JsonItems(items, 1) \o <<"}">>

\* Claim.to_json
to_json(claim) == dumps(to_dict(claim))

\* ---- json.loads ----
JsonWhitespace == {" ", "\t", "\n", "\r"}
JsonDigits == {"0", "1", "2", "3", "4", "5", "6", "7", "8", "9"}
DigitValue(c) == CHOOSE n \in 0..9 : DigitChar(n) = c

\* a value that could not be read
ScanFailed == [ok |-> FALSE, kind |-> "none", str |-> <<>>, num |-> 0, next |-> 0]

RECURSIVE SkipJsonWs(_, _)
SkipJsonWs(s, i) ==
    IF i <= Len(s) /\ s[i] \in JsonWhitespace THEN SkipJsonWs(s, i + 1) ELSE i

\* the character of a \uXXXX escape that starts at position i
UnicodeAt(s, i) ==
    IF i + 3 > Len(s) THEN <<>>
    ELSE LET hex == SubSeq(s, i, i + 3)
         IN  IF \E c \in DOMAIN NonAscii : NonAscii[c] = hex
             THEN <<CHOOSE c \in DOMAIN NonAscii : NonAscii[c] = hex>>
             ELSE <<>>

\* the scanner of a string from position i, after the opening quote: escapes
\* are decoded and a raw control character is an error
RECURSIVE ScanString(_, _, _)
ScanString(s, i, acc) ==
    IF i > Len(s) THEN ScanFailed
    ELSE IF s[i] = "\"" THEN
        [ok |-> TRUE, kind |-> "str", str |-> acc, num |-> 0, next |-> i + 1]
    ELSE IF s[i] \in {"\n", "\r", "\t"} THEN ScanFailed
    ELSE IF s[i] # "\\" THEN ScanString(s, i + 1, Append(acc, s[i]))
    ELSE IF i + 1 > Len(s) THEN ScanFailed
    ELSE IF s[i + 1] \in {"\"", "\\", "/"} THEN ScanString(s, i + 2, Append(acc, s[i + 1]))
    ELSE IF s[i + 1] = "n" THEN ScanString(s, i + 2, Append(acc, "\n"))
    ELSE IF s[i + 1] = "r" THEN ScanString(s, i + 2, Append(acc, "\r"))
    ELSE IF s[i + 1] = "t" THEN ScanString(s, i + 2, Append(acc, "\t"))
    ELSE IF s[i + 1] = "u" /\ UnicodeAt(s, i + 2) # <<>>
         THEN ScanString(s, i + 6, acc \o UnicodeAt(s, i + 2))
    ELSE ScanFailed

\* the digits from position i on: their value and the position after them
RECURSIVE ScanDigits(_, _, _)
ScanDigits(s, i, n) ==
    IF i <= Len(s) /\ s[i] \in JsonDigits
    THEN ScanDigits(s, i + 1, 10 * n + DigitValue(s[i]))
    ELSE [num |-> n, next |-> i]

\* a number whose integer part has been read
NumberAfterFraction(int, frac) ==
    IF frac.next # int.next + 2 THEN ScanFailed
    ELSE [ok |-> TRUE, kind |-> "float", str |-> <<>>,
          num |-> 10 * int.num + frac.num, next |-> frac.next]

NumberAfterInt(s, i, int) ==
    IF int.next = i THEN ScanFailed
    ELSE IF int.next <= Len(s) /\ s[int.next] = "."
    THEN NumberAfterFraction(int, ScanDigits(s, int.next + 1, 0))
    ELSE [ok |-> TRUE, kind |-> "int", str |-> <<>>, num |-> int.num,
          next |-> int.next]

\* the scanner of a number at position i: an int, or a float with one decimal,
\* which is read as a number of tenths
ScanNumber(s, i) == NumberAfterInt(s, i, ScanDigits(s, i, 0))

ScanValue(s, i) ==
    IF i > Len(s) THEN ScanFailed
    ELSE IF s[i] = "\"" THEN ScanString(s, i + 1, <<>>)
    ELSE ScanNumber(s, i)

\* the members of an object could not be read
MembersFailed == [ok |-> FALSE, items |-> <<>>, next |-> 0]

\* the members of an object from position i on, where a key is expected:
\* the items read so far, or a failure.  The scanner goes on after the key,
\* after the colon, after the value and after the item.
RECURSIVE ScanMembers(_, _, _)
RECURSIVE MembersAfterKey(_, _, _)
RECURSIVE MembersAfterColon(_, _, _, _)
RECURSIVE MembersAfterValue(_, _, _, _)
RECURSIVE MembersAfterItem(_, _, _)
ScanMembers(s, i, items) ==
    IF i > Len(s) \/ s[i] # "\"" THEN MembersFailed
    ELSE MembersAfterKey(s, items, ScanString(s, i + 1, <<>>))

MembersAfterKey(s, items, key) ==
    IF ~key.ok THEN MembersFailed
    ELSE MembersAfterColon(s, items, key.str, SkipJsonWs(s, key.next))

MembersAfterColon(s, items, name, colon) ==
    IF colon > Len(s) \/ s[colon] # ":" THEN MembersFailed
    ELSE MembersAfterValue(s, items, name, ScanValue(s, SkipJsonWs(s, colon + 1)))

MembersAfterValue(s, items, name, val) ==
    IF ~val.ok THEN MembersFailed
    ELSE MembersAfterItem(s, Append(items, [key |-> name, kind |-> val.kind,
                                            str |-> val.str, num |-> val.num]),
                          SkipJsonWs(s, val.next))

MembersAfterItem(s, items, sep) ==
    IF sep > Len(s) THEN MembersFailed
    ELSE IF s[sep] = "}" THEN [ok |-> TRUE, items |-> items, next |-> sep + 1]
    ELSE IF s[sep] = "," THEN ScanMembers(s, SkipJsonWs(s, sep + 1), items)
    ELSE MembersFailed

\* the object that has been read is the whole text, up to whitespace
WholeText(text, obj) ==
    IF obj.ok /\ SkipJsonWs(text, obj.next) > Len(text)
    THEN [ok |-> TRUE, items |-> obj.items]
    ELSE [ok |-> FALSE, items |-> <<>>]

\* the object after its opening brace
ObjectFrom(text, first) ==
    WholeText(text, IF first <= Len(text) /\ text[first] = "}"
                    THEN [ok |-> TRUE, items |-> <<>>, next |-> first + 1]
                    ELSE ScanMembers(text, first, <<>>))

ObjectAt(text, open) ==
    IF open > Len(text) \/ text[open] # "{"
    THEN [ok |-> FALSE, items |-> <<>>]
    ELSE ObjectFrom(text, SkipJsonWs(text, open + 1))

\* json.loads of the text of an object: whitespace may surround it, anything
\* else after it is an error
loads(text) == ObjectAt(text, SkipJsonWs(text, 1))

\* data[key] of the dict that json.loads builds: the last item with the key
Lookup(items, key) ==
    items[CHOOSE k \in 1..Len(items) :
             /\ items[k].key = key
             /\ \A l \in (k + 1)..Len(items) : items[l].key # key]

\* what from_json gives when it raises
Raised == [ok |-> FALSE, claim |-> NoneVal]

\* cls(**data), given the values of the seven fields in the order of
\* FieldNames; values that are not of the types of the fields are outside the
\* model and count as raising
ClaimOf(f) ==
    IF \/ \E k \in 1..5 : f[k].kind # "str"
       \/ f[6].kind # "int"
       \/ f[7].kind = "str"
    THEN Raised
    ELSE [ok |-> TRUE,
          claim |-> Claim(f[1].str, f[2].str, f[3].str, f[4].str, f[5].str,
                          f[6].num,
                          IF f[7].kind = "int" THEN 10 * f[7].num ELSE f[7].num)]

\* cls(**data) takes exactly the seven fields
ClaimFrom(data) ==
    IF \/ ~data.ok
       \/ { data.items[k].key : k \in 1..Len(data.items) }
             # { FieldNames[k] : k \in 1..Len(FieldNames) }
    THEN Raised
    ELSE ClaimOf([k \in 1..Len(FieldNames) |-> Lookup(data.items, FieldNames[k])])

\* Claim.from_json
from_json(json_str) == ClaimFrom(loads(json_str))

(***************************************************************************)
(* ClaimStore: one .jsonl file per document                                *)
(***************************************************************************)
DocumentPaths == {<<"a", ".", "t", "x", "t">>, <<"b", ".", "t", "x", "t">>}

\* hashlib.md5(document_path.encode()).hexdigest()[:16] of the two paths
doc_hash(document_path) ==
    IF document_path = <<"a", ".", "t", "x", "t">>
    THEN <<"a", "5", "e", "5", "4", "d", "1", "f", "d", "7", "b", "b", "6", "9", "a", "2">>
    ELSE <<"c", "e", "5", "0", "6", "a", "c", "e", "2", "2", "f", "2", "8", "a", "c", "2">>

\* self.base_dir / f"{doc_hash}.jsonl"
StoreFile(document_path) == doc_hash(document_path) \o <<".", "j", "s", "o", "n", "l">>

\* f.write(claim.to_json() + '\n')
JsonLine(claim) == to_json(claim) \o <<"\n">>

\* the content save_claims writes for a list of claims
RECURSIVE FileOf(_, _)
FileOf(claims, i) ==
    IF i > Len(claims) THEN <<>> ELSE JsonLine(claims[i]) \o FileOf(claims, i + 1)

\* "for line in f": the lines of a text from a position on, each with its
\* newline
RECURSIVE LinesFrom(_, _)
LinesFrom(content, start) ==
    IF start > Len(content) THEN <<>>
    ELSE IF \A i \in start..Len(content) : content[i] # "\n"
    THEN <<SubSeq(content, start, Len(content))>>
    ELSE LET end == CHOOSE i \in start..Len(content) :
                       /\ content[i] = "\n"
                       /\ \A j \in start..(i - 1) : content[j] # "\n"
         IN  <<SubSeq(content, start, end)>> \o LinesFrom(content, end + 1)

\* the loop of load_claims over the lines: blank lines are skipped and every
\* other line goes through Claim.from_json, whose exception leaves load_claims
RECURSIVE LoadLines(_, _, _)
LoadLines(lines, i, claims) ==
    IF i > Len(lines) THEN [ok |-> TRUE, claims |-> claims]
    ELSE IF Strip(lines[i]) = <<>> THEN LoadLines(lines, i + 1, claims)
    ELSE IF ~from_json(lines[i]).ok THEN [ok |-> FALSE, claims |-> <<>>]
    ELSE LoadLines(lines, i + 1, Append(claims, from_json(lines[i]).claim))

\* ClaimStore.load_claims, given the files of the store
load_claims(files, document_path) ==
    IF StoreFile(document_path) \notin DOMAIN files
    THEN [ok |-> TRUE, claims |-> <<>>]
    ELSE LoadLines(LinesFrom(files[StoreFile(document_path)], 1), 1, <<>>)

\* a function with one more argument, or a new value at one
Put(f, x, y) == [z \in DOMAIN f \cup {x} |-> IF z = x THEN y ELSE f[z]]

\* the characters of the field values: a letter, the characters that the
\* JSON text escapes or is built of, and one outside ASCII
FieldAlphabet == {"a", "\"", "\\", "\n", "é", ","}

FieldStrings == UNION { [1..n -> FieldAlphabet] : n \in 0..MaxFieldLen }

\* the claim whose string fields are made of a given string
ClaimWith(s, cid, confidence) ==
    Claim(s, s \o Str["alive"], Str["dead"] \o s, <<"C", "h", " ">> \o s,
          s \o <<" ">> \o Str["was"] \o <<" ">> \o s \o <<".">>, cid, confidence)

\* the claims that follow the first one of a list
LaterClaims(n) ==
    [i \in 1..n |-> IF i % 2 = 1 THEN ClaimWith(<<"\n">>, i, 10)
                    ELSE ClaimWith(<<"a", "\"">>, 10 + i, MIN_CLAIM_CONFIDENCE)]

\* a list of up to MaxStored claims: empty, or any first claim and the later
\* ones
InitStore ==
    /\ OutsideStoreIdle
    /\ \E s \in FieldStrings, first \in {<<0, SIMPLE_CONFIDENCE>>, <<10, 0>>} :
       \E n \in 0..(MaxStored - 1) :
          fn_in \in { <<>>, <<ClaimWith(s, first[1], first[2])>> \o LaterClaims(n) }
    /\ fn_out = <<>>
    /\ store_files = <<>>
    /\ store_saved = <<>>
    /\ store_loaded = <<>>

\* json_str = claim.to_json(); claim2 = Claim.from_json(json_str), for the
\* claims of the list in turn
CallRoundTrip ==
    /\ Len(fn_out) < Len(fn_in)
    /\ store_saved = <<>>
    /\ \E i \in {Len(fn_out) + 1} :
          fn_out' = Append(fn_out, [json |-> to_json(fn_in[i]),
                                    back |-> from_json(to_json(fn_in[i]))])
    /\ UNCHANGED fn_in
    /\ UNCHANGED outside_fn

\* store.save_claims(claims, document_path), with the list or with no claims;
\* a file that exists is overwritten
save_claims ==
    /\ Len(fn_out) = Len(fn_in)
    /\ store_loaded = <<>>
    /\ \E document_path \in DocumentPaths, claims \in {fn_in, <<>>} :
          /\ ~(document_path \in DOMAIN store_saved
               /\ store_saved[document_path] = claims)
          /\ store_files' = Put(store_files, StoreFile(document_path),
                                FileOf(claims, 1))
          /\ store_saved' = Put(store_saved, document_path, claims)
    /\ UNCHANGED store_loaded
    /\ UNCHANGED outside_store

\* loaded = store.load_claims(document_path)
LoadClaims ==
    /\ Len(fn_out) = Len(fn_in)
    /\ \E document_path \in DocumentPaths :
          /\ \A l \in 1..Len(store_loaded) : store_loaded[l].path # document_path
          /\ store_loaded' = Append(store_loaded,
                [path |-> document_path,
                 result |-> load_claims(store_files, document_path)])
    /\ UNCHANGED <<store_files, store_saved>>
    /\ UNCHANGED outside_store

NextStore == CallRoundTrip \/ save_claims \/ LoadClaims

SpecStore == InitStore /\ [][NextStore]_vars

(***************************************************************************)
(* Properties of Claim persistence                                         *)
(***************************************************************************)
\* a line of a .jsonl file is one JSON object that holds exactly the seven
\* Claim fields by name, followed by the only newline of the line
OneClaimPerLine(line) ==
    /\ line # <<>>
    /\ line[Len(line)] = "\n"
    /\ \A i \in 1..(Len(line) - 1) : line[i] # "\n"
    /\ \A data \in {loads(line)} :
          /\ data.ok
          /\ [k \in 1..Len(data.items) |-> data.items[k].key] = FieldNames

\* C18: Claim persistence round-trips.  Claim.from_json(c.to_json()) equals c
\* on all seven fields; load_claims(p) after save_claims(cs, p) returns a list
\* with the length, the order and the field values of cs; and the file holds
\* one JSON object per line, one line per claim, each with exactly the seven
\* Claim fields.
C18_PersistenceRoundTrip ==
    /\ \A i \in 1..Len(fn_out) :
          fn_out[i].back = [ok |-> TRUE, claim |-> fn_in[i]]
    /\ \A l \in 1..Len(store_loaded) :
          store_loaded[l].path \in DOMAIN store_saved =>
             store_loaded[l].result
                = [ok |-> TRUE, claims |-> store_saved[store_loaded[l].path]]
    /\ \A p \in DOMAIN store_saved :
          \A lines \in {LinesFrom(store_files[StoreFile(p)], 1)} :
             /\ Len(lines) = Len(store_saved[p])
             /\ \A k \in 1..Len(lines) : OneClaimPerLine(lines[k])

\* Two claims were saved, the first with a quote and a newline in its fields
\* and the second with a newline, and loaded again: the same two claims.
C18_Witness ==
    /\ Len(fn_in) = 2
    /\ fn_in[1].entity = <<"\"", "\n">>
    /\ Len(fn_out) = 2
    /\ \E l \in 1..Len(store_loaded) :
          /\ store_loaded[l].path \in DOMAIN store_saved
          /\ store_saved[store_loaded[l].path] = fn_in
          /\ store_loaded[l].result.ok
          /\ Len(store_loaded[l].result.claims) = 2
          /\ store_loaded[l].result.claims[1].entity = <<"\"", "\n">>

(***************************************************************************)
(* The document pipeline: cli.main with extract_claims, and the handler of *)
(* app.py with extract_claims_from_text                                    *)
(***************************************************************************)
MaxSentences == 12
BlockSize == 24

\* the sentences of the documents: a chapter heading, alternately of
\* chapter 1 and of chapter 2, and these three sentences after each heading
PipeSentences ==
    << JoinSp(<<Str["The"], Str["king"], Str["died"]>>) \o <<".">>,
       JoinSp(<<Str["Edmund"], Str["was"], Str["dead"]>>) \o <<".">>,
       JoinSp(<<Str["Edmund"], Str["is"], Str["alive"]>>) \o <<".">> >>

PipeSentence(k) ==
    IF (k - 1) % (Len(PipeSentences) + 1) # 0
    THEN PipeSentences[(k - 1) % (Len(PipeSentences) + 1)]
    ELSE Str["Chapter"] \o <<" ">>
         \o Str[IF ((k - 1) \div (Len(PipeSentences) + 1)) % 2 = 0
                THEN "1" ELSE "2"]
         \o <<".">>

\* the document of the first n sentences
PipeDocument(n) == JoinSp([k \in 1..n |-> PipeSentence(k)])

\* a document and the reader's block size: small blocks, so that a document
\* is several chunks, and for the shortest documents the default of config.py
PipeInputs ==
    { <<PipeDocument(n), size>> : n \in 0..MaxSentences,
                                  size \in {BlockSize, 2 * BlockSize} }
    \cup { <<PipeDocument(n), CHUNK_SIZE>> : n \in 0..(MaxSentences \div 4) }

\* the path given on the command line
InputPath == <<"a", ".", "t", "x", "t">>

\* what an earlier run may have left in the store for the path: nothing, an
\* empty file, or the claims of a document
StoredBefore ==
    { <<>>,
      Put(<<>>, StoreFile(InputPath), <<>>),
      Put(<<>>, StoreFile(InputPath),
          FileOf(SimpleClaims(PipeDocument(3), 0, Str["Unknown"]), 1)) }

\* "word_count = len(text.split()); if word_count < 10: return ... 400"
LongEnough(text) ==
    Cardinality({ i \in 1..Len(text) :
                    /\ text[i] \notin Whitespace
                    /\ (i = 1 \/ text[i - 1] \in Whitespace) }) >= 10

InitPipeline ==
    /\ \E input \in PipeInputs :
          /\ file = input[1]
          /\ chunk_size = input[2]
    /\ pos = 0
    /\ sentence_buffer = <<>>
    /\ incomplete_sentence = <<>>
    /\ chunk_id = 0
    /\ yielded = <<>>
    /\ st = "idle"
    /\ committed = <<>>
    /\ decoded = <<>>
    /\ decode_warnings = 0
    /\ ExtractorIdle
    /\ DetectorIdle
    /\ FnIdle
    /\ store_saved = <<>>
    /\ store_loaded = <<>>
    /\ pipe_kind \in {"cli", "app"}
    /\ reuse_claims \in BOOLEAN
    /\ store_files \in StoredBefore
    /\ pipe_kind = "app" => /\ reuse_claims = FALSE
                            /\ store_files = <<>>
                            /\ LongEnough(file)
    /\ pipe_st = "start"
    /\ all_claims = <<>>
    /\ loop_chunk_id = 0
    /\ main_claims = <<>>
    /\ handed = <<>>

\* StreamingReader(path) and ClaimExtractor(), all_claims = [], chunk_id = 0
EnterLoop ==
    /\ st' = "open"
    /\ UNCHANGED <<file, chunk_size, pos, sentence_buffer, incomplete_sentence,
                   chunk_id, yielded, committed, decoded, decode_warnings>>
    /\ ex_kind' = "simple"
    /\ current_time_context' = Str["Unknown"]
    /\ UNCHANGED <<ex_calls, returned, candidates, call_log>>
    /\ pipe_st' = "extracting"
    /\ all_claims' = <<>>
    /\ loop_chunk_id' = 0
    /\ UNCHANGED <<pipe_kind, reuse_claims, main_claims, handed>>

\* cli.main up to the loop of extract_claims: with --reuse-claims the stored
\* claims are loaded, and extract_claims is called when there are none
MainStart ==
    /\ pipe_kind = "cli"
    /\ pipe_st = "start"
    /\ IF reuse_claims
       THEN \E loaded \in {load_claims(store_files, InputPath)} :
               /\ store_loaded' = Append(store_loaded,
                                         [path |-> InputPath, result |-> loaded])
               /\ IF ~loaded.ok
                  THEN /\ pipe_st' = "exit"
                       /\ UNCHANGED <<pipe_kind, reuse_claims, all_claims,
                                      loop_chunk_id, main_claims, handed>>
                       /\ UNCHANGED <<stream_vars, extract_vars>>
                  ELSE IF loaded.claims # <<>>
                  THEN /\ main_claims' = loaded.claims
                       /\ pipe_st' = "claims_ready"
                       /\ UNCHANGED <<pipe_kind, reuse_claims, all_claims,
                                      loop_chunk_id, handed>>
                       /\ UNCHANGED <<stream_vars, extract_vars>>
                  ELSE EnterLoop
       ELSE /\ EnterLoop
            /\ UNCHANGED store_loaded
    /\ UNCHANGED <<store_files, store_saved>>
    /\ UNCHANGED <<detect_vars, nli_vars, fn_vars>>

\* the handler of app.py from the call of extract_claims_from_text to its
\* loop: the text is written to the temporary file and read back from it
HandlerStart ==
    /\ pipe_kind = "app"
    /\ pipe_st = "start"
    /\ EnterLoop
    /\ UNCHANGED <<detect_vars, nli_vars, fn_vars, store_vars>>

\* "for chunk_text in reader.stream_chunks()": the generator runs until its
\* next yield or its end, when the loop asks for the next chunk
NextChunk ==
    /\ pipe_st = "extracting"
    /\ Len(handed) = Len(yielded)
    /\ (ReadBlock \/ EndOfInput)

\* Mutant of ChunkIdAfter: the counter is not advanced.
ChunkIdStuck(cid) == cid

\* "chunk_id += 1"
ChunkIdAfter(cid) == cid + 1

\* the body of the loop: extract_from_chunk(chunk_text, chunk_id),
\* all_claims.extend(chunk_claims), chunk_id += 1
LoopBody ==
    /\ pipe_st = "extracting"
    /\ Len(handed) < Len(yielded)
    /\ \E chunk_text \in {yielded[Len(handed) + 1].text} :
          /\ extract_from_chunk(chunk_text, loop_chunk_id, NoneVal)
          /\ handed' = Append(handed, [text |-> chunk_text,
                                       chunk_id |-> loop_chunk_id])
    /\ all_claims' = all_claims \o returned'
    /\ loop_chunk_id' = ChunkIdAfter(loop_chunk_id)
    /\ UNCHANGED <<pipe_kind, reuse_claims, pipe_st, main_claims>>

\* the generator is exhausted: extract_claims saves the claims and returns
\* them to main; extract_claims_from_text returns them
LoopEnds ==
    /\ pipe_st = "extracting"
    /\ st = "done"
    /\ Len(handed) = Len(yielded)
    /\ IF pipe_kind = "cli"
       THEN /\ store_files' = Put(store_files, StoreFile(InputPath),
                                  FileOf(all_claims, 1))
            /\ store_saved' = Put(store_saved, InputPath, all_claims)
            /\ UNCHANGED store_loaded
       ELSE UNCHANGED store_vars
    /\ main_claims' = all_claims
    /\ pipe_st' = "claims_ready"
    /\ UNCHANGED <<pipe_kind, reuse_claims, all_claims, loop_chunk_id, handed>>
    /\ UNCHANGED <<stream_vars, extract_vars, detect_vars, nli_vars, fn_vars>>

\* "if not claims": the run ends without a detector; otherwise
\* SimplifiedContradictionDetector(threshold) and detector.detect(claims)
\* (cli.main with --simplified, app.py always)
DetectOrExit ==
    /\ pipe_st = "claims_ready"
    /\ IF main_claims = <<>>
       THEN /\ pipe_st' = "exit"
            /\ UNCHANGED detect_vars
       ELSE /\ pipe_st' = "detected"
            /\ det_kind' = "rule"
            /\ det_claims' = main_claims
            /\ contradictions' = detect(main_claims)
            /\ det_returns' = Append(det_returns, detect(main_claims))
            /\ det_calls' = det_calls + 1
            /\ det_st' = "done"
    /\ UNCHANGED <<pipe_kind, reuse_claims, all_claims, loop_chunk_id,
                   main_claims, handed>>
    /\ UNCHANGED <<stream_vars, extract_vars, nli_vars, fn_vars, store_vars>>

NextPipeline ==
    MainStart \/ HandlerStart \/ NextChunk \/ LoopBody \/ LoopEnds \/ DetectOrExit

SpecPipeline == InitPipeline /\ [][NextPipeline]_vars

(***************************************************************************)
(* Properties of the document pipeline                                     *)
(***************************************************************************)
\* extract_claims or extract_claims_from_text has been entered: the reader
\* exists
ExtractionEntered == st # "idle"

\* C20: in a run that goes through extract_claims or extract_claims_from_text,
\* the chunks are handed to the one extractor one at a time, in the order the
\* reader yields them, numbered 0, 1, 2, ... without gaps; the collected claims
\* are in non-decreasing chunk_id order; and detect is invoked only when the
\* reader is exhausted and every chunk has been extracted, on the claims
\* collected.
C20_PipelineOrder ==
    /\ \A k \in 1..Len(handed) :
          /\ handed[k].chunk_id = k - 1
          /\ handed[k].text = yielded[k].text
    /\ Len(handed) <= Len(yielded)
    /\ Len(yielded) <= Len(handed) + 1
    /\ ex_calls = Len(handed)
    /\ Len(call_log) = Len(handed)
    /\ \A i, j \in 1..Len(all_claims) :
          i < j => all_claims[i].chunk_id <= all_claims[j].chunk_id
    /\ \A i \in 1..Len(all_claims) :
          \E k \in 1..Len(handed) : all_claims[i].chunk_id = handed[k].chunk_id
    /\ (det_calls > 0 /\ ExtractionEntered) =>
          /\ st = "done"
          /\ Len(handed) = Len(yielded)
          /\ det_claims = all_claims

\* a document of three chunks, each with claims, has gone through detection
C20_Witness ==
    /\ pipe_st = "detected"
    /\ Len(handed) = 3
    /\ \A k \in 0..2 : \E i \in 1..Len(all_claims) : all_claims[i].chunk_id = k
    /\ det_claims = all_claims
    /\ contradictions # <<>>

(***************************************************************************)
(* One detect call on two claims of one group, by their values             *)
(***************************************************************************)
\* the words of the table
TableWords ==
    UNION { {opposing_pairs[k][1], opposing_pairs[k][2]} :
            k \in 1..Len(opposing_pairs) }

\* the value strings of ValueStrings, and the words of the table followed by
\* one more character
ValueTexts ==
    ValueStrings \cup { w \o <<c>> : w \in TableWords, c \in ValueAlphabet }

InitValuePairs ==
    /\ OutsideDetectIdle
    /\ \E value1 \in ValueTexts, value2 \in ValueTexts :
          det_claims = ClaimList(<< <<Str["Edmund"], Str["alive"], value1>>,
                                    <<Str["Edmund"], Str["alive"], value2>> >>)
    /\ det_kind = "rule"
    /\ det_st = "ready"
    /\ contradictions = <<>>
    /\ det_calls = 0
    /\ det_returns = <<>>
    /\ NliIdle

SpecValuePairs == InitValuePairs /\ [][NextDetect]_vars

\* a normalized value contains a word
Contains(value, word) == IsSubstring(word, Strip(Lower(value)))

\* one value contains one member of a pair of the table and the other value
\* contains the other member
ContainOpposingWords(value1, value2) ==
    \E k \in 1..Len(opposing_pairs) :
        \/ Contains(value1, opposing_pairs[k][1]) /\ Contains(value2, opposing_pairs[k][2])
        \/ Contains(value1, opposing_pairs[k][2]) /\ Contains(value2, opposing_pairs[k][1])

\* C21: after detect on two claims of one group, there is a verdict exactly
\* when one value contains as a substring one member of a table pair and the
\* other value contains the other member (the normalized values being
\* different); a pair of which one value contains no member of any table pair
\* yields no verdict.
C21_ContainmentOpposes ==
    (det_st = "done" /\ Len(det_claims) = 2) =>
       /\ (contradictions # <<>>) <=>
             /\ ValueKey(det_claims[1]) # ValueKey(det_claims[2])
             /\ ContainOpposingWords(det_claims[1].value, det_claims[2].value)
       /\ (\E i \in 1..2 : \A w \in TableWords : ~Contains(det_claims[i].value, w))
             => contradictions = <<>>

\* the key the claims are to be grouped by: the entity lowercased and trimmed,
\* the attribute lowercased
TrimmedKey(claim) == <<Strip(Lower(claim.entity)), Lower(claim.attribute)>>

\* C22: the rule-based detect compares two claims if and only if they have the
\* same (entity lowercased and trimmed, attribute lowercased) key: two claims
\* with the same key and the two values of a table pair give a verdict, also
\* when their entities differ by letter case or by surrounding whitespace, and
\* every verdict pairs the values of two claims that have the same key.
C22_GroupedByTrimmedKey ==
    (det_kind = "rule" /\ det_st = "done") =>
       /\ \A i, j \in 1..Len(det_claims) :
             ( /\ i < j
               /\ TrimmedKey(det_claims[i]) = TrimmedKey(det_claims[j])
               /\ Opposing(ValueKey(det_claims[i]), ValueKey(det_claims[j])) )
             => \E n \in 1..Len(contradictions) :
                   /\ Strip(Lower(contradictions[n].entity)) = TrimmedKey(det_claims[i])[1]
                   /\ Lower(contradictions[n].attribute) = TrimmedKey(det_claims[i])[2]
                   /\ { Strip(Lower(contradictions[n].values[1])),
                        Strip(Lower(contradictions[n].values[2])) }
                         = { ValueKey(det_claims[i]), ValueKey(det_claims[j]) }
       /\ \A n \in 1..Len(contradictions) :
             \E i, j \in 1..Len(det_claims) :
                /\ i < j
                /\ TrimmedKey(det_claims[i]) = TrimmedKey(det_claims[j])
                /\ contradictions[n].values = <<det_claims[i].value, det_claims[j].value>>
                /\ contradictions[n].entity = det_claims[i].entity

(***************************************************************************)
(* detect before and after a claim that repeats an earlier one is appended *)
(***************************************************************************)
RepeatFacts ==
    ({Str["Edmund"]} \X {Str["alive"]} \X DetectValues)
    \cup {<<Str["king"], Str["alive"], Str["dead"]>>}

InitRepeat ==
    /\ OutsideDetectIdle
    /\ \E n \in 0..MaxClaims :
          \E facts \in [1..n -> RepeatFacts] : det_claims = ClaimList(facts)
    /\ det_kind = "rule"
    /\ det_st = "ready"
    /\ contradictions = <<>>
    /\ det_calls = 0
    /\ det_returns = <<>>
    /\ NliIdle

\* the spellings of a value that have the same lowercased-trimmed form
Respellings(value) == {value, Title(value), <<" ">> \o value \o <<" ">>}

\* between two detect calls the caller appends a claim from a later chunk
\* whose entity, attribute and normalized value repeat those of an earlier claim
AppendRepeated ==
    /\ det_kind = "rule"
    /\ det_st = "done"
    /\ det_calls = 1
    /\ \E i \in 1..Len(det_claims) :
       \E value \in Respellings(det_claims[i].value) :
          det_claims' = Append(det_claims,
              Claim(det_claims[i].entity, det_claims[i].attribute, value,
                    <<"C", "h", "9">>,
                    JoinSp(<<det_claims[i].entity, Str["is"], value>>), 9,
                    SIMPLE_CONFIDENCE))
    /\ det_st' = "ready"
    /\ UNCHANGED <<det_kind, contradictions, det_calls, det_returns>>
    /\ UNCHANGED nli_vars
    /\ UNCHANGED outside_detect

NextRepeat == Detect \/ AppendRepeated

SpecRepeat == InitRepeat /\ [][NextRepeat]_vars

\* a claim is the first one of its group with its normalized value
FirstOfValue(i) ==
    \A j \in 1..(i - 1) :
        ~(GroupKey(det_claims[j]) = GroupKey(det_claims[i])
          /\ ValueKey(det_claims[j]) = ValueKey(det_claims[i]))

\* C23: every verdict of the rule-based detect is built from two claims that
\* are each the first of their group with their lowercased-trimmed value, and
\* cites their values, locations and source texts; and detect returns the same
\* list before and after a claim is appended whose entity, attribute and
\* normalized value repeat those of an earlier claim.
C23_FirstClaimPerValue ==
    /\ det_st = "done" =>
          \A n \in 1..Len(contradictions) :
             \E i, j \in 1..Len(det_claims) :
                /\ i < j
                /\ FirstOfValue(i) /\ FirstOfValue(j)
                /\ GroupKey(det_claims[i]) = GroupKey(det_claims[j])
                /\ contradictions[n].values = <<det_claims[i].value, det_claims[j].value>>
                /\ contradictions[n].locations
                      = <<det_claims[i].time_context, det_claims[j].time_context>>
                /\ contradictions[n].source_texts
                      = <<det_claims[i].source_text, det_claims[j].source_text>>
    /\ Len(det_returns) = 2 => det_returns[1] = det_returns[2]

\* "Dead" from a later chunk was appended to a list that holds "dead" and
\* "alive" for the entity, and the second detect returned the one verdict of
\* the first.
C23_Witness ==
    /\ Len(det_returns) = 2
    /\ Len(det_returns[2]) = 1
    /\ det_claims[Len(det_claims)].chunk_id = 9
    /\ det_claims[Len(det_claims)].value = Title(Str["dead"])
    /\ \E i \in 1..(Len(det_claims) - 1) : det_claims[i].value = Str["dead"]

(***************************************************************************)
(* Properties of _calculate_confidence                                     *)
(***************************************************************************)
\* the number of places of the lowercased text where a marker of the list,
\* from the k-th one on, occurs
RECURSIVE Occurrences(_, _, _)
Occurrences(markers, text, k) ==
    IF k > Len(markers) THEN 0
    ELSE Cardinality({ i \in 0..(Len(text) - Len(markers[k])) :
                         SubSeq(Lower(text), i + 1, i + Len(markers[k])) = markers[k] })
         + Occurrences(markers, text, k + 1)

\* C24: under the spaCy extractor the confidence of a sentence is
\* clamp(1.0 - 0.3 * (occurrences of uncertainty words)
\*           - 0.4 * (occurrences of metaphor markers)
\*           - 0.5 * (1 if it ends with a question mark), 0, 1), in tenths:
\* a marker that appears twice is penalised twice.
C24_PenaltyPerOccurrence ==
    ex_kind = "nlp" =>
       \A i \in 1..Len(candidates) :
          candidates[i].confidence
             = Max(0, Min(10,
                 10 - UNCERTAINTY_PENALTY
                         * Occurrences(uncertainty_markers, candidates[i].source_text, 1)
                    - METAPHOR_PENALTY
                         * Occurrences(metaphor_markers, candidates[i].source_text, 1)
                    - (IF EndsWith(Strip(candidates[i].source_text), <<"?">>)
                       THEN QUESTION_PENALTY ELSE 0)))

(***************************************************************************)
(* _is_likely_name: sentences whose subject is a name, a function word in  *)
(* several letter cases, or a very long word                               *)
(***************************************************************************)
\* str.upper()
Upper(s) == [i \in 1..Len(s) |-> UpperChar(s[i])]

\* a capitalised word of n letters
LongName(n) == [i \in 1..n |-> IF i = 1 THEN "E" ELSE "d"]

LetterCases(word) == {Title(word), Upper(word), Lower(word)}

NameSubjects ==
    LetterCases(Str["Edmund"])
    \cup UNION { LetterCases(word) \cup
                 { JoinSp(<<first, Str["king"]>>) : first \in LetterCases(word) } :
                 word \in {Str["The"], <<"I", "t">>, <<"W", "h", "e", "n">>} }
    \cup {LongName(MAX_NAME_LENGTH), LongName(MAX_NAME_LENGTH + 1)}

NameChunks ==
    { JoinSp(<<subject, Str["was"], Str["dead"]>>) \o <<".">> :
        subject \in NameSubjects }

InitNames == InitExtract /\ ex_kind = "simple"

NameExtract ==
    \E text \in NameChunks, time_context \in ContextArgs :
        /\ ex_calls < MaxCalls
        /\ extract_from_chunk(text, ex_calls, time_context)
        /\ UNCHANGED pipe_vars

NextNames == NameExtract

SpecNames == InitNames /\ [][NextNames]_vars

\* C25: the pattern-based extractor never returns a Claim whose entity does
\* not start with an uppercase letter, whose first word is one of the
\* function words of non_names in any letter case that starts uppercase
\* ("The" as well as "THE"), or whose entity is longer than 50 characters.
C25_OnlyLikelyNames ==
    ex_kind = "simple" =>
       \A i \in 1..Len(returned) :
          /\ IsUpper(returned[i].entity[1])
          /\ Title(WordsOf(returned[i].entity)[1]) \notin non_names
          /\ Len(returned[i].entity) <= MAX_NAME_LENGTH

(***************************************************************************)
(* The order of the verdicts of ContradictionDetector.detect: lists that   *)
(* hold the same claim several times                                       *)
(***************************************************************************)
\* two claims about Edmund and one about the king
EdmundDead ==
    Claim(Str["Edmund"], Str["alive"], Str["dead"], Str["Ch1"],
          JoinSp(<<Str["Edmund"], Str["was"], Str["dead"]>>), 0, SIMPLE_CONFIDENCE)
EdmundAlive ==
    Claim(Lower(Str["Edmund"]), Str["alive"], Str["alive"], <<"C", "h", "2">>,
          JoinSp(<<Lower(Str["Edmund"]), Str["was"], Str["alive"]>>), 1,
          SIMPLE_CONFIDENCE)
KingDead ==
    Claim(Str["king"], Str["alive"], Str["dead"], Str["Ch1"],
          JoinSp(<<Str["king"], Str["was"], Str["dead"]>>), 0, SIMPLE_CONFIDENCE)

\* claim lists that hold the same claim several times, the claims of the
\* two entities alternating
RepeatedClaims ==
    { <<KingDead, EdmundDead, KingDead, EdmundAlive, EdmundDead>>,
      <<EdmundDead, EdmundDead, EdmundDead>> }

\* a detector is about to be constructed and called with any selection of
\* the claims of one of these lists
InitOrder ==
    /\ OutsideDetectIdle
    /\ \E doc \in RepeatedClaims :
          \E keep \in SUBSET (1..Len(doc)) : det_claims = SubList(doc, keep, 1)
    /\ det_kind = "none"
    /\ det_st = "new"
    /\ contradictions = <<>>
    /\ det_calls = 0
    /\ det_returns = <<>>
    /\ NliIdle

NextOrder ==
    \/ ConstructDetector
    \/ DetectBegin
    \/ EncodeReturns
    \/ PredictReturns

SpecOrder == InitOrder /\ [][NextOrder]_vars

\* the position of the first claim of the input about the entity of claim i
FirstAppearance(i) ==
    CHOOSE k \in 1..i :
       /\ NormalizedEntity(det_claims[k]) = NormalizedEntity(det_claims[i])
       /\ \A l \in 1..(k - 1) :
             NormalizedEntity(det_claims[l]) # NormalizedEntity(det_claims[i])

\* processing order of two pairs of positions: by first appearance of the
\* entity, then by the first index, then by the second
PairBefore(p, q) ==
    \/ FirstAppearance(p[1]) < FirstAppearance(q[1])
    \/ /\ FirstAppearance(p[1]) = FirstAppearance(q[1])
       /\ \/ p[1] < q[1]
          \/ p[1] = q[1] /\ p[2] < q[2]

\* whether the pair of the claims at positions i < j passed both thresholds,
\* by the answers the providers gave
PassedBoth(i, j) ==
    \E texts \in {<<_claim_to_text(det_claims[i]), _claim_to_text(det_claims[j])>>} :
       /\ texts[1] \in DOMAIN embed_memo
       /\ texts[2] \in DOMAIN embed_memo
       /\ SimilarEnough(embed_memo[texts[1]], embed_memo[texts[2]])
       /\ texts \in DOMAIN score_memo
       /\ AtLeastThreshold(score_memo[texts][1] - score_memo[texts][2])

PassingPairs ==
    { p \in (1..Len(det_claims)) \X (1..Len(det_claims)) :
        /\ p[1] < p[2]
        /\ NormalizedEntity(det_claims[p[1]]) = NormalizedEntity(det_claims[p[2]])
        /\ PassedBoth(p[1], p[2]) }

\* the n-th of a set of pairs in processing order
NthPair(pairs, n) ==
    CHOOSE p \in pairs : Cardinality({q \in pairs : PairBefore(q, p)}) = n - 1

\* the verdicts of a set of pairs, one per pair, in processing order
VerdictsInOrder(pairs) ==
    [n \in 1..Cardinality(pairs) |->
        JurorResult(det_claims[NthPair(pairs, n)[1]], det_claims[NthPair(pairs, n)[2]],
                    score_memo[<<_claim_to_text(det_claims[NthPair(pairs, n)[1]]),
                                 _claim_to_text(det_claims[NthPair(pairs, n)[2]])>>][1]
                    - score_memo[<<_claim_to_text(det_claims[NthPair(pairs, n)[1]]),
                                   _claim_to_text(det_claims[NthPair(pairs, n)[2]])>>][2])]

\* the number of claims of the input that equal the claim at position i
Copies(i) == Cardinality({k \in 1..Len(det_claims) : det_claims[k] = det_claims[i]})

\* C26: ContradictionDetector.detect returns its verdicts in processing
\* order, entity groups by first appearance of the entity in the claim list
\* and within a group the pairs in increasing (i, j) order with i < j, one
\* verdict for every pair that passed both thresholds and none removed as a
\* duplicate: k identical claims of an entity with no other claim, all
\* passing, give k * (k - 1) / 2 verdicts about that entity.
C26_VerdictsInProcessingOrder ==
    (det_kind = "nli" /\ det_st = "done") =>
       /\ contradictions = VerdictsInOrder(PassingPairs)
       /\ \A i \in 1..Len(det_claims) :
             ( /\ \A k \in 1..Len(det_claims) :
                     NormalizedEntity(det_claims[k]) = NormalizedEntity(det_claims[i])
                        => det_claims[k] = det_claims[i]
               /\ Copies(i) >= 2
               /\ PassedBoth(i, i) )
             => 2 * Cardinality({ n \in 1..Len(contradictions) :
                                    NormalizedEntity(contradictions[n])
                                       = NormalizedEntity(det_claims[i]) })
                   = Copies(i) * (Copies(i) - 1)

\* detect returned one verdict for each of two groups whose claims alternate
\* in the input, each group made of two copies of one claim
C26_Witness ==
    /\ det_kind = "nli"
    /\ det_st = "done"
    /\ Len(det_claims) = 4
    /\ det_claims[1] = det_claims[3]
    /\ det_claims[2] = det_claims[4]
    /\ NormalizedEntity(det_claims[2]) # NormalizedEntity(det_claims[1])
    /\ Len(contradictions) = 2
    /\ NormalizedEntity(contradictions[1]) = NormalizedEntity(det_claims[1])

(***************************************************************************)
(* Carry-over and the words of the source                                  *)
(***************************************************************************)
\* every punctuation mark of the source that can end a sentence is followed
\* by whitespace or ends the source
SentencesSpaced ==
    \A i \in 1..(Len(file) - 1) :
       file[i] \in Terminal \cup {"\""} => file[i + 1] \in Whitespace

\* C27: carry-over preserves the text: for validly encoded input whose
\* sentences are separated by whitespace, once the stream has ended, the
\* whitespace-separated words of the yielded chunks, taken in order, are the
\* words of the source, also when a block boundary falls on the whitespace
\* between two words: no two words are merged and no word is split.
C27_CarryOverKeepsWords ==
    (st = "done" /\ ValidUtf8(file) /\ SentencesSpaced) =>
        WordsOf(JoinSp(ChunkTexts)) = WordsOf(SourceText)

(***************************************************************************)
(* Chunks that hold several temporal markers                               *)
(***************************************************************************)
MarkerWords ==
    { <<>>,
      JoinSp(<<Str["Chapter"], Str["1"]>>),
      JoinSp(<<Str["Chapter"], Str["2"]>>),
      JoinSp(<<Str["scene"], Str["2"]>>),
      JoinSp(<<Title(Str["act"]), <<"I">>>>) }

\* one sentence: up to two markers, then a fact
MarkerChunks ==
    { JoinSp(SelectSeq(<<m1, m2, JoinSp(<<Str["Edmund"], Str["was"], Str["dead"]>>)>>,
                       LAMBDA part : part # <<>>)) \o Period :
        m1 \in MarkerWords, m2 \in MarkerWords }

\* the calls on one extractor: a chunk with markers and the one that follows
MarkerCalls == MaxCalls - 1

MarkerExtract ==
    \E text \in MarkerChunks, time_context \in ContextArgs :
        /\ ex_calls < MarkerCalls
        /\ extract_from_chunk(text, ex_calls, time_context)
        /\ UNCHANGED pipe_vars

NextMarkers == MarkerExtract

SpecMarkers == InitNames /\ [][NextMarkers]_vars

\* the positions of a text where a marker of the k-th keyword starts
MarkerPositions(k, text) ==
    { p \in 1..Len(text) : KeywordMatchAt(TEMPORAL_KEYWORDS[k], text, p) # NoneVal }

\* the keywords, by their place in the configured order, that have a marker
\* somewhere in the text
KeywordsPresent(text) ==
    { k \in 1..Len(TEMPORAL_KEYWORDS) : MarkerPositions(k, text) # {} }

\* the marker of the k-th keyword that starts at position p
MarkerAt(k, text, p) ==
    Title(TEMPORAL_KEYWORDS[k]) \o <<" ">>
       \o KeywordMatchAt(TEMPORAL_KEYWORDS[k], text, p)

Least(S) == CHOOSE x \in S : \A y \in S : x <= y

\* the first textual match of the earliest keyword of the configured order
\* that matches anywhere in the text; the current context if none matches
AdoptedContext(text, current) ==
    IF KeywordsPresent(text) = {} THEN current
    ELSE MarkerAt(Least(KeywordsPresent(text)), text,
                  Least(MarkerPositions(Least(KeywordsPresent(text)), text)))

\* C28: a call of extract_from_chunk without explicit context adopts the
\* first textual match of the earliest keyword of the configured order
\* (chapter, act, scene, part, book, section) that matches anywhere in the
\* chunk, not the marker that occurs last: the claims of the chunk and the
\* extractor's context get it, and a chunk without marker keeps the context
\* of the call before.
C28_EarliestKeywordFirstMatch ==
    [][ (ex_calls' = ex_calls + 1 /\ call_log'[Len(call_log')].arg = NoneVal) =>
           /\ returned' # <<>>
           /\ \A i \in 1..Len(returned') :
                 returned'[i].time_context
                    = AdoptedContext(returned'[i].source_text, current_time_context)
           /\ current_time_context'
                 = AdoptedContext(returned'[1].source_text, current_time_context)
      ]_vars

\* a chunk "Chapter 1 Chapter 2 ..." left the context at "Chapter 1" although
\* the call before had set another one
C28_Witness ==
    /\ Len(call_log) >= 2
    /\ call_log[Len(call_log) - 1].marker
          = JoinSp(<<Title(Str["act"]), <<"I">>>>)
    /\ call_log[Len(call_log)].arg = NoneVal
    /\ returned # <<>>
    /\ returned[1].source_text
          = JoinSp(<<Str["Chapter"], Str["1"], Str["Chapter"], Str["2"],
                     Str["Edmund"], Str["was"], Str["dead"]>>)
    /\ returned[1].time_context = JoinSp(<<Str["Chapter"], Str["1"]>>)
    /\ current_time_context = JoinSp(<<Str["Chapter"], Str["1"]>>)

(***************************************************************************)
(* detect on a claim list and on a permutation of it                       *)
(***************************************************************************)
\* the claims of two documents, as (entity, attribute, value): entities,
\* attributes and values in several spellings, two entities, two attributes
PermutedDocuments ==
    LET e1 == <<Str["Edmund"], Str["alive"], Str["alive"]>>
        e2 == <<Str["Edmund"], Str["alive"], Str["dead"]>>
        e3 == <<Lower(Str["Edmund"]), Title(Str["alive"]),
                <<" ">> \o Title(Str["dead"]) \o <<" ">>>>
        e4 == <<Str["Edmund"], Str["wealth"], Str["rich"]>>
        e5 == <<Str["Edmund"], Str["wealth"], Str["poor"]>>
        k1 == <<Str["king"], Str["alive"], Str["dead"]>>
    IN  {<<e1, e2, e3, k1, e4>>, <<e4, e5, e3, e1>>}

InitPermuted ==
    /\ OutsideDetectIdle
    /\ \E doc \in PermutedDocuments :
          \E keep \in SUBSET (1..Len(doc)) :
             det_claims = ClaimList(SubList(doc, keep, 1))
    /\ det_kind = "rule"
    /\ det_st = "ready"
    /\ contradictions = <<>>
    /\ det_calls = 0
    /\ det_returns = <<>>
    /\ NliIdle

\* the permutations of 1..n
ListOrders(n) ==
    { f \in [1..n -> 1..n] : \A i, j \in 1..n : i # j => f[i] # f[j] }

\* between two detect calls the caller reorders the claim list
Permute ==
    /\ det_kind = "rule"
    /\ det_st = "done"
    /\ det_calls = 1
    /\ \E f \in ListOrders(Len(det_claims)) :
          det_claims' = [i \in 1..Len(det_claims) |-> det_claims[f[i]]]
    /\ det_st' = "ready"
    /\ UNCHANGED <<det_kind, contradictions, det_calls, det_returns>>
    /\ UNCHANGED nli_vars
    /\ UNCHANGED outside_detect

NextPermuted == Detect \/ Permute

SpecPermuted == InitPermuted /\ [][NextPermuted]_vars

\* the (lowercased entity, lowercased attribute, unordered pair of normalized
\* values) triples of a list of verdicts
Triples(verdicts) ==
    { <<Lower(verdicts[n].entity), Lower(verdicts[n].attribute),
        {Strip(Lower(verdicts[n].values[1])), Strip(Lower(verdicts[n].values[2]))}>> :
        n \in 1..Len(verdicts) }

\* C29: the set of contradictions that SimplifiedContradictionDetector.detect
\* reports does not depend on the order of the input claims: the calls on a
\* claim list and on any permutation of it return verdicts with the same set
\* of (lowercased entity, lowercased attribute, unordered pair of normalized
\* values) triples.
C29_SetIndependentOfOrder ==
    \A a, b \in 1..Len(det_returns) :
        Triples(det_returns[a]) = Triples(det_returns[b])

\* the call on the permuted list returned other verdicts than the first call
\* (other orientation or other representative claims), two or more of them
C29_Witness ==
    /\ Len(det_returns) = 2
    /\ Len(det_returns[1]) >= 2
    /\ det_returns[1] # det_returns[2]
    /\ \A n \in 1..Len(det_returns[2]) :
          \A m \in 1..Len(det_returns[1]) : det_returns[2][n] # det_returns[1][m]

(***************************************************************************)
(* The estimate of the number of chunks                                    *)
(***************************************************************************)
\* self.filepath.stat().st_size
get_file_size == Len(file)

\* return (file_size // self.chunk_size) + 1
get_estimated_chunks == (get_file_size \div chunk_size) + 1

\* C30: for every file and chunk_size, the number of chunks that
\* stream_chunks has yielded never exceeds get_estimated_chunks(), the total
\* of the progress bar of the command line.
C30_ChunksWithinEstimate == Len(yielded) <= get_estimated_chunks

====
